---- MODULE Spec2Model ----
(***************************************************************************)
(* Clinical normative scoring core of the cognitive-assessment backend     *)
(* (backend/core/analysis/clinical_accuracy.py: ClinicalNorms and          *)
(* ClinicalScoring).                                                       *)
(*                                                                         *)
(* Number representation.  The source computes on Python floats whose      *)
(* literals have one or two decimals.  The model computes the same         *)
(* expressions exactly:                                                    *)
(*   - scores, means and standard deviations are integers counting tenths  *)
(*     of a point (26.2 is 262), cutoffs are whole points;                 *)
(*   - a z-score is the fraction n/d, kept as [n |-> n, d |-> d], d > 0;   *)
(*   - a percentile is the fraction num/den with den = 100 * d^3, kept as  *)
(*     [num |-> num, den |-> den] and never reduced, so that 0.1 is        *)
(*     num = den \div 10 and 99.9 is num = 999 * (den \div 10).            *)
(* binary64 rounding moves the source's values by less than 1e-13 of these *)
(* exact ones; a comparison can differ from the source's only where the    *)
(* two decimals compared are equal (on the tenths grid of raw scores: 22.2 *)
(* against 24.1 - 0.5 * 3.8, which binary64 evaluates just above 22.2).    *)
(***************************************************************************)
EXTENDS Integers, Sequences, FiniteSets, TLC

VARIABLES
    scoring, \* the ClinicalScoring instance: [norms |-> ClinicalNorms instance]
    pc,     \* "call" before the method body has run, "done" after it returned or raised
    op,     \* the method being called
    args,   \* its arguments
    ret,    \* its outcome: [status |-> "pending"], a returned value, or a raised exception
    callers, \* concurrent callers of the one instance: caller -> [pc, op, args, seen, ret]
    db      \* the database behind the endpoints: the rows of users, test_sessions, test_results

vars == <<scoring, pc, op, args, ret, callers, db>>

(***************************************************************************)
(* Bounds of the model                                                     *)
(***************************************************************************)
\* ages 0..MaxAge are passed to the band functions and to the scorers
MaxAge == 130
\* raw scores 0.0 .. MaxRaw10/10 in steps of a tenth of a point; the
\* instruments score 0..30, the methods accept any number
MaxRaw10 == 310
\* z-scores passed to calculate_percentile directly: k/ZDen for |k| <= ZMax*ZDen
ZDen == 4
ZMax == 4

Ages == 0..MaxAge
RawScores == 0..MaxRaw10
ZScores == {[n |-> k, d |-> ZDen] : k \in (0 - ZMax * ZDen)..(ZMax * ZDen)}
\* the five labels the code knows, and strings it does not know
Labels == {"non_educated", "primary", "secondary", "graduate", "postgraduate", "unknown"}
\* further strings get_education_group does not know
OtherLabels == {"Secondary", "college", ""}

Min(a, b) == IF a <= b THEN a ELSE b
Max(a, b) == IF a >= b THEN a ELSE b

(***************************************************************************)
(* ClinicalNorms.__init__ : the normative tables                           *)
(***************************************************************************)
Row(mean10, std10, cutoff) == [mean |-> mean10, std |-> std10, cutoff |-> cutoff]

Bands4(r04, r58, r912, rcol) ==
    ("grade_0-4" :> r04) @@ ("grade_5-8" :> r58) @@ ("grade_9-12" :> r912) @@ ("college" :> rcol)

\* the MMSE table with the standard deviation of one row typed as 0
mmse_norms_zero_std ==
    [by_age_education |->
        ("18-24" :> Bands4(Row(228, 39, 17), Row(253, 33, 20), Row(272, 27, 23), Row(285, 18, 26)))
     @@ ("25-29" :> Bands4(Row(221, 41, 16), Row(249, 34, 19), Row(270, 28, 22), Row(283, 19, 25)))
     @@ ("30-39" :> Bands4(Row(219, 42, 15), Row(247, 35, 19), Row(268, 29, 22), Row(281, 20, 25)))
     @@ ("40-49" :> Bands4(Row(217, 43, 15), Row(245, 36, 18), Row(266, 30, 21), Row(279, 21, 24)))
     @@ ("50-59" :> Bands4(Row(215, 44, 14), Row(243, 37, 18), Row(264, 31, 21), Row(277, 22, 24)))
     @@ ("60-69" :> Bands4(Row(213, 45, 14), Row(241, 38, 17), Row(262, 32, 20), Row(275, 23, 23)))
     @@ ("70-79" :> Bands4(Row(211, 46, 13), Row(239, 39, 17), Row(260, 33, 20), Row(273, 24, 23)))
     @@ ("80+"   :> Bands4(Row(209, 47, 12), Row(237, 40, 16), Row(258, 34, 19), Row(271, 0, 22)))]

mmse_norms ==
    [by_age_education |->
        ("18-24" :> Bands4(Row(228, 39, 17), Row(253, 33, 20), Row(272, 27, 23), Row(285, 18, 26)))
     @@ ("25-29" :> Bands4(Row(221, 41, 16), Row(249, 34, 19), Row(270, 28, 22), Row(283, 19, 25)))
     @@ ("30-39" :> Bands4(Row(219, 42, 15), Row(247, 35, 19), Row(268, 29, 22), Row(281, 20, 25)))
     @@ ("40-49" :> Bands4(Row(217, 43, 15), Row(245, 36, 18), Row(266, 30, 21), Row(279, 21, 24)))
     @@ ("50-59" :> Bands4(Row(215, 44, 14), Row(243, 37, 18), Row(264, 31, 21), Row(277, 22, 24)))
     @@ ("60-69" :> Bands4(Row(213, 45, 14), Row(241, 38, 17), Row(262, 32, 20), Row(275, 23, 23)))
     @@ ("70-79" :> Bands4(Row(211, 46, 13), Row(239, 39, 17), Row(260, 33, 20), Row(273, 24, 23)))
     @@ ("80+"   :> Bands4(Row(209, 47, 12), Row(237, 40, 16), Row(258, 34, 19), Row(271, 25, 22)))]

Bands2(r012, rcol) == ("grade_0-12" :> r012) @@ ("college" :> rcol)

moca_norms ==
    [by_age_education |->
        ("18-65" :> Bands2(Row(259, 31, 22), Row(274, 21, 26)))
     @@ ("66-75" :> Bands2(Row(251, 33, 21), Row(268, 23, 25)))
     @@ ("76+"   :> Bands2(Row(243, 35, 20), Row(262, 25, 24))),
     education_adjustment |-> 10]

ClinicalNorms == [mmse_norms |-> mmse_norms, moca_norms |-> moca_norms]

\* ClinicalScoring.__init__
ClinicalScoring == [norms |-> ClinicalNorms]

(***************************************************************************)
(* ClinicalNorms.get_age_group / get_education_group                       *)
(***************************************************************************)
\* get_age_group with the first comparison written <= instead of <
get_age_group_inclusive(age) ==
    IF age <= 25 THEN "18-24"
    ELSE IF age < 30 THEN "25-29"
    ELSE IF age < 40 THEN "30-39"
    ELSE IF age < 50 THEN "40-49"
    ELSE IF age < 60 THEN "50-59"
    ELSE IF age < 70 THEN "60-69"
    ELSE IF age < 80 THEN "70-79"
    ELSE "80+"

get_age_group(age) ==
    IF age < 25 THEN "18-24"
    ELSE IF age < 30 THEN "25-29"
    ELSE IF age < 40 THEN "30-39"
    ELSE IF age < 50 THEN "40-49"
    ELSE IF age < 60 THEN "50-59"
    ELSE IF age < 70 THEN "60-69"
    ELSE IF age < 80 THEN "70-79"
    ELSE "80+"

\* the education map with the college bucket misspelt for graduate
education_map_typo ==
       ("non_educated" :> "grade_0-4")
    @@ ("primary"      :> "grade_5-8")
    @@ ("secondary"    :> "grade_9-12")
    @@ ("graduate"     :> "collage")
    @@ ("postgraduate" :> "college")

education_map ==
       ("non_educated" :> "grade_0-4")
    @@ ("primary"      :> "grade_5-8")
    @@ ("secondary"    :> "grade_9-12")
    @@ ("graduate"     :> "college")
    @@ ("postgraduate" :> "college")

\* get_education_group with the default of dict.get left at the lowest bucket
get_education_group_low_default(education_level) ==
    IF education_level \in DOMAIN education_map
    THEN education_map[education_level]
    ELSE "grade_0-4"

get_education_group(education_level) ==
    IF education_level \in DOMAIN education_map
    THEN education_map[education_level]
    ELSE "grade_9-12"

(***************************************************************************)
(* ClinicalScoring.calculate_percentile                                    *)
(***************************************************************************)
\* calculate_percentile returning the polynomial without max/min
calculate_percentile_unclamped(z_score) ==
    LET n == z_score.n
        d == z_score.d
        d3 == d * d * d
        percentile == 5000 * d3 + 3413 * n * d * d - 278 * n * n * d + 74 * n * n * n
    IN  IF n < (0 - 3) * d THEN [num |-> 10 * d3, den |-> 100 * d3]
        ELSE IF n > 3 * d THEN [num |-> 9990 * d3, den |-> 100 * d3]
        ELSE [num |-> percentile, den |-> 100 * d3]

\* calculate_percentile with the sign of the quadratic term flipped
calculate_percentile_plus_square(z_score) ==
    LET n == z_score.n
        d == z_score.d
        d3 == d * d * d
        percentile == 5000 * d3 + 3413 * n * d * d + 278 * n * n * d + 74 * n * n * n
    IN  IF n < (0 - 3) * d THEN [num |-> 10 * d3, den |-> 100 * d3]
        ELSE IF n > 3 * d THEN [num |-> 9990 * d3, den |-> 100 * d3]
        ELSE [num |-> Max(10 * d3, Min(9990 * d3, percentile)), den |-> 100 * d3]

calculate_percentile(z_score) ==
    LET n == z_score.n
        d == z_score.d
        d3 == d * d * d
        \* 100 * d^3 * (50 + 34.13 z - 2.78 z^2 + 0.74 z^3)
        percentile == 5000 * d3 + 3413 * n * d * d - 278 * n * n * d + 74 * n * n * n
    IN  IF n < (0 - 3) * d THEN [num |-> 10 * d3, den |-> 100 * d3]
        ELSE IF n > 3 * d THEN [num |-> 9990 * d3, den |-> 100 * d3]
        ELSE [num |-> Max(10 * d3, Min(9990 * d3, percentile)), den |-> 100 * d3]

(***************************************************************************)
(* Outcomes of a call                                                      *)
(***************************************************************************)
Pending == [status |-> "pending"]
Returned(v) == [status |-> "ok", value |-> v]
\* a returned value together with the locals of the call that produced it
ReturnedWith(v, l) == [status |-> "ok", value |-> v, locals |-> l]
Raised(e) == [status |-> "raised", exc |-> e]

(***************************************************************************)
(* ClinicalScoring.score_mmse_with_norms                                   *)
(***************************************************************************)
\* the lookup with the two subscripts in the wrong order
mmse_norm_data_swapped(self, age_group, edu_group) ==
    IF /\ "by_age_education" \in DOMAIN self.norms.mmse_norms
       /\ edu_group \in DOMAIN self.norms.mmse_norms.by_age_education
       /\ age_group \in DOMAIN self.norms.mmse_norms.by_age_education[edu_group]
    THEN self.norms.mmse_norms.by_age_education[edu_group][age_group]
    ELSE Row(240, 30, 20)

\* the lookup with another default cutoff in the except branch
mmse_norm_data_other_default(self, age_group, edu_group) ==
    IF /\ "by_age_education" \in DOMAIN self.norms.mmse_norms
       /\ age_group \in DOMAIN self.norms.mmse_norms.by_age_education
       /\ edu_group \in DOMAIN self.norms.mmse_norms.by_age_education[age_group]
    THEN self.norms.mmse_norms.by_age_education[age_group][edu_group]
    ELSE Row(240, 30, 24)

\* the try/except around the table lookup: a missing key at any of the three
\* subscripts is a KeyError, which selects the default row
mmse_norm_data(self, age_group, edu_group) ==
    IF /\ "by_age_education" \in DOMAIN self.norms.mmse_norms
       /\ age_group \in DOMAIN self.norms.mmse_norms.by_age_education
       /\ edu_group \in DOMAIN self.norms.mmse_norms.by_age_education[age_group]
    THEN self.norms.mmse_norms.by_age_education[age_group][edu_group]
    ELSE Row(240, 30, 20)

\* the MMSE chain with > instead of >= in the first test
mmse_interpretation_strict(raw_score, expected_mean, expected_std, clinical_cutoff) ==
    IF 2 * raw_score > 2 * expected_mean - expected_std THEN <<"normal", "low">>
    ELSE IF raw_score >= 10 * clinical_cutoff THEN <<"borderline", "mild">>
    ELSE IF raw_score >= 10 * (clinical_cutoff - 5) THEN <<"mild_impairment", "moderate">>
    ELSE <<"significant_impairment", "high">>

\* the MMSE chain with the cutoff - 5 test placed before the cutoff test
mmse_interpretation_swapped_elif(raw_score, expected_mean, expected_std, clinical_cutoff) ==
    IF 2 * raw_score >= 2 * expected_mean - expected_std THEN <<"normal", "low">>
    ELSE IF raw_score >= 10 * (clinical_cutoff - 5) THEN <<"mild_impairment", "moderate">>
    ELSE IF raw_score >= 10 * clinical_cutoff THEN <<"borderline", "mild">>
    ELSE <<"significant_impairment", "high">>

\* the if/elif chain giving <<interpretation, risk_level>>
mmse_interpretation(raw_score, expected_mean, expected_std, clinical_cutoff) ==
    IF 2 * raw_score >= 2 * expected_mean - expected_std THEN <<"normal", "low">>
    ELSE IF raw_score >= 10 * clinical_cutoff THEN <<"borderline", "mild">>
    ELSE IF raw_score >= 10 * (clinical_cutoff - 5) THEN <<"mild_impairment", "moderate">>
    ELSE <<"significant_impairment", "high">>

get_mmse_clinical_significance(risk_level) ==
    CASE risk_level = "low" -> "within normal limits"
      [] risk_level = "mild" -> "borderline performance"
      [] risk_level = "moderate" -> "suggests mild cognitive impairment"
      [] risk_level = "high" -> "indicates significant impairment"
      [] OTHER -> "requires clinical interpretation"

score_mmse_with_norms(self, raw_score, age, education_level) ==
    LET age_group == get_age_group(age)
        edu_group == get_education_group(education_level)
        norm_data == mmse_norm_data(self, age_group, edu_group)
        expected_mean == norm_data.mean
        expected_std == norm_data.std
        clinical_cutoff == norm_data.cutoff
        z_score == [n |-> raw_score - expected_mean, d |-> expected_std]
        percentile == calculate_percentile(z_score)
        tier == mmse_interpretation(raw_score, expected_mean, expected_std, clinical_cutoff)
    IN  IF expected_std = 0 THEN Raised("ZeroDivisionError")
        ELSE ReturnedWith(
                [raw_score |-> raw_score,
                 max_score |-> 30,
                 z_score |-> z_score,
                 percentile |-> percentile,
                 expected_mean |-> expected_mean,
                 clinical_cutoff |-> clinical_cutoff,
                 interpretation |-> tier[1],
                 risk_level |-> tier[2],
                 clinical_significance |-> get_mmse_clinical_significance(tier[2])],
                [age_group |-> age_group, edu_group |-> edu_group,
                 expected_std |-> expected_std])

(***************************************************************************)
(* ClinicalScoring.score_moca_with_norms                                   *)
(***************************************************************************)
\* the education adjustment without the cap
moca_adjusted_score_uncapped(self, raw_score, education_level) ==
    IF education_level \in {"non_educated", "primary"}
    THEN raw_score + self.norms.moca_norms.education_adjustment
    ELSE raw_score

\* the education adjustment, capped at the maximum score 30
moca_adjusted_score(self, raw_score, education_level) ==
    IF education_level \in {"non_educated", "primary"}
    THEN Min(raw_score + self.norms.moca_norms.education_adjustment, 300)
    ELSE raw_score

\* the MoCA age bands with <= instead of < in the first test
moca_age_group_inclusive(age) ==
    IF age <= 66 THEN "18-65"
    ELSE IF age < 76 THEN "66-75"
    ELSE "76+"

moca_age_group(age) ==
    IF age < 66 THEN "18-65"
    ELSE IF age < 76 THEN "66-75"
    ELSE "76+"

moca_edu_group(education_level) ==
    IF education_level \in {"graduate", "postgraduate"} THEN "college" ELSE "grade_0-12"

\* the MoCA chain with > instead of >= in the first test
moca_interpretation_strict(adjusted_score) ==
    IF adjusted_score > 260 THEN <<"normal", "low">>
    ELSE IF adjusted_score >= 220 THEN <<"mild_cognitive_impairment", "mild">>
    ELSE IF adjusted_score >= 170 THEN <<"moderate_impairment", "moderate">>
    ELSE <<"severe_impairment", "high">>

\* the if/elif chain giving <<interpretation, risk_level>>
moca_interpretation(adjusted_score) ==
    IF adjusted_score >= 260 THEN <<"normal", "low">>
    ELSE IF adjusted_score >= 220 THEN <<"mild_cognitive_impairment", "mild">>
    ELSE IF adjusted_score >= 170 THEN <<"moderate_impairment", "moderate">>
    ELSE <<"severe_impairment", "high">>

get_moca_clinical_significance(risk_level) ==
    CASE risk_level = "low" -> "within normal limits"
      [] risk_level = "mild" -> "suggests possible mild cognitive impairment"
      [] risk_level = "moderate" -> "indicates moderate cognitive impairment"
      [] risk_level = "high" -> "suggests significant impairment"
      [] OTHER -> "requires clinical interpretation"

score_moca_with_norms(self, raw_score, age, education_level) ==
    LET adjusted_score == moca_adjusted_score(self, raw_score, education_level)
        age_group == moca_age_group(age)
        edu_group == moca_edu_group(education_level)
        \* the lookup is not inside a try block: a missing key propagates
        found == /\ "by_age_education" \in DOMAIN self.norms.moca_norms
                 /\ age_group \in DOMAIN self.norms.moca_norms.by_age_education
                 /\ edu_group \in DOMAIN self.norms.moca_norms.by_age_education[age_group]
        norm_data == self.norms.moca_norms.by_age_education[age_group][edu_group]
        expected_mean == norm_data.mean
        expected_std == norm_data.std
        clinical_cutoff == norm_data.cutoff
        z_score == [n |-> adjusted_score - expected_mean, d |-> expected_std]
        percentile == calculate_percentile(z_score)
        tier == moca_interpretation(adjusted_score)
    IN  IF ~found THEN Raised("KeyError")
        ELSE IF expected_std = 0 THEN Raised("ZeroDivisionError")
        ELSE ReturnedWith(
                [raw_score |-> raw_score,
                 adjusted_score |-> adjusted_score,
                 education_adjustment |-> adjusted_score - raw_score,
                 max_score |-> 30,
                 z_score |-> z_score,
                 percentile |-> percentile,
                 expected_mean |-> expected_mean,
                 clinical_cutoff |-> clinical_cutoff,
                 interpretation |-> tier[1],
                 risk_level |-> tier[2],
                 clinical_significance |-> get_moca_clinical_significance(tier[2])],
                [age_group |-> age_group, edu_group |-> edu_group,
                 expected_std |-> expected_std])

(***************************************************************************)
(* The state machine: one call of one method on a constructed instance     *)
(***************************************************************************)
ScoreArgs(r, a, l) == [raw_score |-> r, age |-> a, education_level |-> l]

InitInstance ==
    /\ scoring = ClinicalScoring
    /\ callers = <<>>
    /\ db = <<>>
    /\ pc = "call"
    /\ ret = Pending

InitHelpers ==
    /\ InitInstance
    /\ \/ /\ op = "get_age_group"
          /\ \E age \in Ages : args = [age |-> age]
       \/ /\ op = "get_education_group"
          /\ \E l \in Labels \cup OtherLabels : args = [education_level |-> l]
       \/ /\ op = "calculate_percentile"
          /\ \E z \in ZScores : args = [z_score |-> z]

InitMMSE ==
    /\ InitInstance
    /\ op = "score_mmse_with_norms"
    /\ \E r \in RawScores, a \in Ages, l \in Labels : args = ScoreArgs(r, a, l)

InitMoCA ==
    /\ InitInstance
    /\ op = "score_moca_with_norms"
    /\ \E r \in RawScores, a \in Ages, l \in Labels : args = ScoreArgs(r, a, l)

Init == InitHelpers \/ InitMMSE \/ InitMoCA

CallGetAgeGroup ==
    /\ pc = "call" /\ op = "get_age_group"
    /\ ret' = Returned(get_age_group(args.age))
    /\ pc' = "done"
    /\ UNCHANGED <<scoring, op, args, callers, db>>

CallGetEducationGroup ==
    /\ pc = "call" /\ op = "get_education_group"
    /\ ret' = Returned(get_education_group(args.education_level))
    /\ pc' = "done"
    /\ UNCHANGED <<scoring, op, args, callers, db>>

CallCalculatePercentile ==
    /\ pc = "call" /\ op = "calculate_percentile"
    /\ ret' = Returned(calculate_percentile(args.z_score))
    /\ pc' = "done"
    /\ UNCHANGED <<scoring, op, args, callers, db>>

CallScoreMMSE ==
    /\ pc = "call" /\ op = "score_mmse_with_norms"
    /\ ret' = score_mmse_with_norms(scoring, args.raw_score, args.age, args.education_level)
    /\ pc' = "done"
    /\ UNCHANGED <<scoring, op, args, callers, db>>

CallScoreMoCA ==
    /\ pc = "call" /\ op = "score_moca_with_norms"
    /\ ret' = score_moca_with_norms(scoring, args.raw_score, args.age, args.education_level)
    /\ pc' = "done"
    /\ UNCHANGED <<scoring, op, args, callers, db>>

NextHelpers ==
    \/ CallGetAgeGroup
    \/ CallGetEducationGroup
    \/ CallCalculatePercentile

Next ==
    \/ NextHelpers
    \/ CallScoreMMSE
    \/ CallScoreMoCA

\* every method of the core
Spec == Init /\ [][Next]_vars
\* the band functions and the percentile approximation
SpecHelpers == InitHelpers /\ [][NextHelpers]_vars
\* score_mmse_with_norms alone, score_moca_with_norms alone
SpecMMSE == InitMMSE /\ [][CallScoreMMSE]_vars
SpecMoCA == InitMoCA /\ [][CallScoreMoCA]_vars

Done(m) == pc = "done" /\ op = m

(***************************************************************************)
(* Properties                                                              *)
(***************************************************************************)
\* a percentile p = num/den (den a multiple of 10) lies in [0.1, 99.9]
InPercentileRange(p) ==
    /\ p.den > 0
    /\ p.den % 10 = 0
    /\ p.num >= p.den \div 10
    /\ p.num <= 999 * (p.den \div 10)

\* p = num/den (den a multiple of 100) equals h hundredths
IsHundredths(p, h) == p.den % 100 = 0 /\ p.num = h * (p.den \div 100)

\* C1: every value calculate_percentile returns lies in [0.1, 99.9], and so
\* does the percentile field of every MMSE and MoCA result.
C1_PercentileInRange ==
    /\ Done("calculate_percentile") => InPercentileRange(ret.value)
    /\ (Done("score_mmse_with_norms") \/ Done("score_moca_with_norms")) =>
            ret.status = "ok" /\ InPercentileRange(ret.value.percentile)

\* the polynomial is below 0.1 for z = -2 and is clamped; an MMSE result
\* (here 22 points against mean 26.2, std 3.2) is clamped as well
C1_Witness ==
    \/ /\ Done("calculate_percentile")
       /\ args.z_score.n = (0 - 2) * args.z_score.d
       /\ IsHundredths(ret.value, 10)
    \/ /\ Done("score_mmse_with_norms")
       /\ args = ScoreArgs(220, 68, "secondary")
       /\ IsHundredths(ret.value.percentile, 10)

\* C2: calculate_percentile is 0.1 below z = -3, 99.9 above z = 3 and the
\* clamped cubic 50 + 34.13 z - 2.78 z^2 + 0.74 z^3 in between; z = 0 gives
\* 50.0, z = 1 gives 82.09, z = -3.5 gives 0.1 and z = 3.5 gives 99.9.
C2_PercentileFormula ==
    Done("calculate_percentile") =>
        LET n == args.z_score.n
            d == args.z_score.d
            p == ret.value
            unit == d * d * d
            \* 100 d^3 times the cubic, in Horner form
            cubic == 5000 * unit + n * (3413 * d * d + n * (74 * n - 278 * d))
        IN  /\ p.den = 100 * unit
            /\ (n < (0 - 3) * d) => IsHundredths(p, 10)
            /\ (n > 3 * d) => IsHundredths(p, 9990)
            /\ ((0 - 3) * d <= n /\ n <= 3 * d) =>
                    p.num = (IF cubic < 10 * unit THEN 10 * unit
                             ELSE IF cubic > 9990 * unit THEN 9990 * unit
                             ELSE cubic)
            /\ (n = 0) => IsHundredths(p, 5000)
            /\ (n = d) => IsHundredths(p, 8209)
            /\ (2 * n = (0 - 7) * d) => IsHundredths(p, 10)
            /\ (2 * n = 7 * d) => IsHundredths(p, 9990)

C2_Witness ==
    /\ Done("calculate_percentile")
    /\ args.z_score.n = args.z_score.d
    /\ IsHundredths(ret.value, 8209)

\* the MMSE bands as their names spell them; "80+" has no upper end
AgeBandLo ==
    ("18-24" :> 18) @@ ("25-29" :> 25) @@ ("30-39" :> 30) @@ ("40-49" :> 40)
    @@ ("50-59" :> 50) @@ ("60-69" :> 60) @@ ("70-79" :> 70) @@ ("80+" :> 80)
AgeBandHi ==
    ("18-24" :> 24) @@ ("25-29" :> 29) @@ ("30-39" :> 39) @@ ("40-49" :> 49)
    @@ ("50-59" :> 59) @@ ("60-69" :> 69) @@ ("70-79" :> 79)
InAgeBand(age, b) ==
    /\ AgeBandLo[b] <= age
    /\ b \in DOMAIN AgeBandHi => age <= AgeBandHi[b]

\* C3: for every age get_age_group returns the one MMSE band whose range
\* holds the age; ages below 18 give "18-24" and ages from 80 give "80+".
C3_AgeBandTotal ==
    Done("get_age_group") =>
        LET age == args.age
            matching == {b \in DOMAIN AgeBandLo : InAgeBand(Max(age, 18), b)}
        IN  /\ ret.status = "ok"
            /\ Cardinality(DOMAIN AgeBandLo) = 8
            /\ Cardinality(matching) = 1
            /\ ret.value \in matching
            /\ (age < 18) => ret.value = "18-24"
            /\ (age >= 80) => ret.value = "80+"

\* a boundary age falls in the band that names it
C3_Witness ==
    /\ Done("get_age_group")
    /\ args.age = 25
    /\ ret.value = "25-29"

\* C4: get_education_group maps the five known labels to their buckets and
\* every other string to grade_9-12; it always returns one of four buckets.
C4_EducationGroup ==
    Done("get_education_group") =>
        LET l == args.education_level
        IN  /\ ret.status = "ok"
            /\ ret.value \in {"grade_0-4", "grade_5-8", "grade_9-12", "college"}
            /\ ret.value = (CASE l = "non_educated" -> "grade_0-4"
                              [] l = "primary" -> "grade_5-8"
                              [] l = "secondary" -> "grade_9-12"
                              [] l \in {"graduate", "postgraduate"} -> "college"
                              [] OTHER -> "grade_9-12")

C4_Witness ==
    /\ Done("get_education_group")
    /\ args.education_level = "unknown"
    /\ ret.value = "grade_9-12"

C6_EndToEnd ==
    (Done("score_mmse_with_norms") /\ args = ScoreArgs(220, 68, "secondary")) =>
        /\ ret.status = "ok"
        /\ ret.locals.age_group = "60-69"
        /\ ret.locals.edu_group = "grade_9-12"
        /\ ret.value.expected_mean = 262
        /\ ret.locals.expected_std = 32
        /\ ret.value.clinical_cutoff = 20
        /\ 10000 * ret.value.z_score.n = (0 - 13125) * ret.value.z_score.d
        /\ ret.value.interpretation = "borderline"
        /\ ret.value.risk_level = "mild"
        /\ InPercentileRange(ret.value.percentile)
        /\ IsHundredths(ret.value.percentile, 10)

C6_Witness ==
    /\ Done("score_mmse_with_norms")
    /\ args = ScoreArgs(220, 68, "secondary")
    /\ ret.value.interpretation = "borderline"
    /\ ret.value.expected_mean = 262

\* C7: score_moca_with_norms adds one point for non_educated and primary,
\* capped at 30, and nothing for any other label; 30 with non_educated stays
\* 30; the z-score and the tiers are computed from the adjusted score.
C7_MoCAAdjustment ==
    Done("score_moca_with_norms") =>
        /\ ret.status = "ok"
        /\ LET raw == args.raw_score
               l == args.education_level
               adj == ret.value.adjusted_score
           IN  /\ (l \in {"non_educated", "primary"}) =>
                        adj = (IF raw + 10 > 300 THEN 300 ELSE raw + 10)
               /\ (l \notin {"non_educated", "primary"}) => adj = raw
               /\ (raw = 300 /\ l = "non_educated") => adj = 300
               /\ ret.value.education_adjustment = adj - raw
               /\ ret.value.z_score.n = adj - ret.value.expected_mean
               /\ ret.value.z_score.d = ret.locals.expected_std
               /\ (ret.value.interpretation = "normal") <=> (adj >= 260)

C7_Witness ==
    /\ Done("score_moca_with_norms")
    /\ args.raw_score = 300
    /\ args.education_level = "non_educated"
    /\ ret.value.adjusted_score = 300

\* ages on both sides of every MoCA band edge
MoCAProbeAges == {0, 65, 66, 75, 76, MaxAge}

\* C8: the MoCA tiers are absolute thresholds on the adjusted score (26, 22,
\* 17), so interpretation and risk level do not depend on the age.
C8_MoCAAbsoluteTiers ==
    Done("score_moca_with_norms") =>
        /\ ret.status = "ok"
        /\ LET adj == ret.value.adjusted_score
               pair == <<ret.value.interpretation, ret.value.risk_level>>
           IN  /\ (adj >= 260) => pair = <<"normal", "low">>
               /\ (adj < 260 /\ adj >= 220) => pair = <<"mild_cognitive_impairment", "mild">>
               /\ (adj < 220 /\ adj >= 170) => pair = <<"moderate_impairment", "moderate">>
               /\ (adj < 170) => pair = <<"severe_impairment", "high">>
               /\ \A a \in MoCAProbeAges :
                    LET other == score_moca_with_norms(scoring, args.raw_score, a,
                                                       args.education_level)
                    IN  /\ other.status = "ok"
                        /\ <<other.value.interpretation, other.value.risk_level>> = pair

\* 25.0 with primary is adjusted to 26.0 and is normal at 80 years, where the
\* band's own cutoff is 20
C8_Witness ==
    /\ Done("score_moca_with_norms")
    /\ args = ScoreArgs(250, 80, "primary")
    /\ ret.value.adjusted_score = 260
    /\ ret.value.interpretation = "normal"

\* C9: score_moca_with_norms resolves "18-65" below 66, "66-75" below 76 and
\* "76+" from 76, and "college" for graduate and postgraduate, "grade_0-12"
\* otherwise; the resolved cell is in the MoCA table and the call returns.
C9_MoCABands ==
    Done("score_moca_with_norms") =>
        /\ ret.status = "ok"
        /\ LET age == args.age
               l == args.education_level
               ag == ret.locals.age_group
               eg == ret.locals.edu_group
               table == scoring.norms.moca_norms.by_age_education
           IN  /\ (age < 66) => ag = "18-65"
               /\ (66 <= age /\ age < 76) => ag = "66-75"
               /\ (age >= 76) => ag = "76+"
               /\ (eg = "college") <=> (l \in {"graduate", "postgraduate"})
               /\ (eg # "college") => eg = "grade_0-12"
               /\ ag \in DOMAIN table
               /\ eg \in DOMAIN table[ag]
               /\ ret.value.expected_mean = table[ag][eg].mean
               /\ ret.value.clinical_cutoff = table[ag][eg].cutoff

C9_Witness ==
    /\ Done("score_moca_with_norms")
    /\ args.age = 66
    /\ args.education_level = "postgraduate"
    /\ ret.locals.age_group = "66-75"
    /\ ret.locals.edu_group = "college"

\* the instance with one cell, or one whole age band, missing from the MMSE table
WithoutCell(self, ag, eg) ==
    [self EXCEPT !.norms.mmse_norms.by_age_education[ag] =
        [e \in (DOMAIN @) \ {eg} |-> @[e]]]
WithoutBand(self, ag) ==
    [self EXCEPT !.norms.mmse_norms.by_age_education =
        [a \in (DOMAIN @) \ {ag} |-> @[a]]]
UsesFallbackRow(r) ==
    /\ r.status = "ok"
    /\ r.value.expected_mean = 240
    /\ r.locals.expected_std = 30
    /\ r.value.clinical_cutoff = 20

\* C10: score_mmse_with_norms and score_moca_with_norms return a result for
\* every raw score, age and label; with the resolved MMSE cell absent from
\* the table, score_mmse_with_norms returns a result computed from the row
\* mean 24.0, std 3.0, cutoff 20.
C10_LookupNeverThrows ==
    /\ (Done("score_mmse_with_norms") \/ Done("score_moca_with_norms")) =>
            ret.status = "ok"
    /\ Done("score_mmse_with_norms") =>
            LET ag == ret.locals.age_group
                eg == ret.locals.edu_group
            IN  /\ UsesFallbackRow(score_mmse_with_norms(WithoutCell(scoring, ag, eg),
                        args.raw_score, args.age, args.education_level))
                /\ UsesFallbackRow(score_mmse_with_norms(WithoutBand(scoring, ag),
                        args.raw_score, args.age, args.education_level))

\* calls with an age beyond every band and a label outside the map return
C10_Witness ==
    /\ pc = "done"
    /\ op \in {"score_mmse_with_norms", "score_moca_with_norms"}
    /\ args.age = 130
    /\ args.education_level = "unknown"
    /\ ret.status = "ok"

(***************************************************************************)
(* Degenerate statistics.  The tables are plain attributes of the norms    *)
(* object (self.norms.mmse_norms, self.norms.moca_norms); a row whose      *)
(* standard deviation is 0 is the configuration the error-handling design  *)
(* names "degenerate statistics".  SpecDegenerate runs the two scorers on  *)
(* an instance whose resolved row has std = 0.                             *)
(***************************************************************************)
WithZeroStdMMSE(self, ag, eg) ==
    [self EXCEPT !.norms.mmse_norms.by_age_education[ag][eg].std = 0]
WithZeroStdMoCA(self, ag, eg) ==
    [self EXCEPT !.norms.moca_norms.by_age_education[ag][eg].std = 0]

InitDegenerate ==
    /\ callers = <<>>
    /\ db = <<>>
    /\ pc = "call"
    /\ ret = Pending
    /\ \E r \in RawScores, a \in Ages, l \in Labels :
        /\ args = ScoreArgs(r, a, l)
        /\ \/ /\ op = "score_mmse_with_norms"
              /\ scoring = WithZeroStdMMSE(ClinicalScoring, get_age_group(a),
                                           get_education_group(l))
           \/ /\ op = "score_moca_with_norms"
              /\ scoring = WithZeroStdMoCA(ClinicalScoring, moca_age_group(a),
                                           moca_edu_group(l))

NextScorers == CallScoreMMSE \/ CallScoreMoCA

SpecDegenerate == InitDegenerate /\ [][NextScorers]_vars

\* the standard deviation of the row a scorer call resolves
ResolvedStd ==
    IF op = "score_mmse_with_norms"
    THEN mmse_norm_data(scoring, get_age_group(args.age),
                        get_education_group(args.education_level)).std
    ELSE scoring.norms.moca_norms.by_age_education[moca_age_group(args.age)][
            moca_edu_group(args.education_level)].std

\* C11: with a normative standard deviation of 0 the scorers do not raise a
\* division error: they return a result whose z-score is 0.
C11_ZeroStdSentinel ==
    ((Done("score_mmse_with_norms") \/ Done("score_moca_with_norms")) /\ ResolvedStd = 0) =>
        /\ ret.status = "ok"
        /\ ret.value.z_score.n = 0

(***************************************************************************)
(* ClinicalScoring.analyze_error_patterns                                  *)
(*                                                                         *)
(* A dict is a function on its keys; {} is EmptyDict.  A section object is *)
(* {"score": n} or {} (a section without a score).                         *)
(***************************************************************************)
EmptyDict == [k \in {} |-> 0]

\* the section scores an MMSE section can carry: 0 .. full credit, where full
\* credit is the default the code uses for a missing score
FullCredit ==
       ("registration" :> 3) @@ ("delayed_recall" :> 3) @@ ("attention_calculation" :> 5)
    @@ ("language_naming" :> 2) @@ ("language_repetition" :> 1)
    @@ ("orientation_time" :> 5) @@ ("orientation_place" :> 5)

SectionNames == DOMAIN FullCredit

\* mmse_sections.get(name, {}).get("score", default) with the default 0
section_score_zero_default(mmse_sections, name, default) ==
    LET section == IF name \in DOMAIN mmse_sections THEN mmse_sections[name] ELSE EmptyDict
    IN  IF "score" \in DOMAIN section THEN section["score"] ELSE 0

\* mmse_sections.get(name, {}).get("score", default)
section_score(mmse_sections, name, default) ==
    LET section == IF name \in DOMAIN mmse_sections THEN mmse_sections[name] ELSE EmptyDict
    IN  IF "score" \in DOMAIN section THEN section["score"] ELSE default

\* "if cond: errors.append(text)"
Append_if(cond, text) == IF cond THEN <<text>> ELSE <<>>

\* the memory rules with the consolidation test written as elif
memory_flags_elif(registration_score, recall_score) ==
       Append_if(registration_score < 3, "Immediate memory registration deficit")
    \o (IF recall_score < 2 THEN <<"Delayed recall impairment">>
        ELSE Append_if(recall_score < registration_score, "Memory consolidation deficit"))

memory_flags(registration_score, recall_score) ==
       Append_if(registration_score < 3, "Immediate memory registration deficit")
    \o Append_if(recall_score < 2, "Delayed recall impairment")
    \o Append_if(recall_score < registration_score, "Memory consolidation deficit")

\* the attention rules with the second test written as elif
attention_flags_elif(attention_score) ==
    IF attention_score < 3 THEN <<"Sustained attention impairment">>
    ELSE Append_if(attention_score < 2, "Working memory deficit")

attention_flags(attention_score) ==
       Append_if(attention_score < 3, "Sustained attention impairment")
    \o Append_if(attention_score < 2, "Working memory deficit")

language_flags(naming_score, repetition_score) ==
       Append_if(naming_score < 2, "Object naming difficulty")
    \o Append_if(repetition_score < 1, "Complex phrase repetition deficit")

\* appended to attention_errors
orientation_flags(time_orientation, place_orientation) ==
       Append_if(time_orientation < 4, "Temporal orientation impairment")
    \o Append_if(place_orientation < 4, "Spatial orientation impairment")

NoPattern == "No significant error patterns detected"
MemoryPattern == "Memory-predominant pattern (suggestive of Alzheimer's type)"
AttentionPattern == "Attention/Executive pattern (suggestive of vascular or mixed etiology)"
LanguagePattern == "Language-predominant pattern (requires aphasia evaluation)"
MixedPattern == "Mixed cognitive pattern (requires comprehensive assessment)"

\* the priority chain with the attention test ahead of the memory test
overall_pattern_attention_first(error_patterns) ==
    LET total_errors == Len(error_patterns.memory_errors) + Len(error_patterns.attention_errors)
                        + Len(error_patterns.language_errors)
                        + Len(error_patterns.visuospatial_errors)
                        + Len(error_patterns.executive_errors)
    IN  IF total_errors = 0 THEN NoPattern
        ELSE IF Len(error_patterns.attention_errors) >= 2 THEN AttentionPattern
        ELSE IF Len(error_patterns.memory_errors) >= 2 THEN MemoryPattern
        ELSE IF Len(error_patterns.language_errors) >= 1 THEN LanguagePattern
        ELSE MixedPattern

overall_pattern(error_patterns) ==
    LET total_errors == Len(error_patterns.memory_errors) + Len(error_patterns.attention_errors)
                        + Len(error_patterns.language_errors)
                        + Len(error_patterns.visuospatial_errors)
                        + Len(error_patterns.executive_errors)
    IN  IF total_errors = 0 THEN NoPattern
        ELSE IF Len(error_patterns.memory_errors) >= 2 THEN MemoryPattern
        ELSE IF Len(error_patterns.attention_errors) >= 2 THEN AttentionPattern
        ELSE IF Len(error_patterns.language_errors) >= 1 THEN LanguagePattern
        ELSE MixedPattern

\* analyze_error_patterns with the orientation flags in the executive bucket
analyze_error_patterns_orientation_executive(test_responses) ==
    LET present == "mmse_sections" \in DOMAIN test_responses
        mmse_sections == test_responses["mmse_sections"]
        registration_score == section_score(mmse_sections, "registration", 3)
        recall_score == section_score(mmse_sections, "delayed_recall", 3)
        attention_score == section_score(mmse_sections, "attention_calculation", 5)
        naming_score == section_score(mmse_sections, "language_naming", 2)
        repetition_score == section_score(mmse_sections, "language_repetition", 1)
        time_orientation == section_score(mmse_sections, "orientation_time", 5)
        place_orientation == section_score(mmse_sections, "orientation_place", 5)
        error_patterns ==
            [memory_errors |->
                IF present THEN memory_flags(registration_score, recall_score) ELSE <<>>,
             attention_errors |->
                IF present
                THEN attention_flags(attention_score)
                ELSE <<>>,
             language_errors |->
                IF present THEN language_flags(naming_score, repetition_score) ELSE <<>>,
             visuospatial_errors |-> <<>>,
             executive_errors |->
                IF present THEN orientation_flags(time_orientation, place_orientation)
                ELSE <<>>]
    IN  Returned([memory_errors |-> error_patterns.memory_errors,
                  attention_errors |-> error_patterns.attention_errors,
                  language_errors |-> error_patterns.language_errors,
                  visuospatial_errors |-> error_patterns.visuospatial_errors,
                  executive_errors |-> error_patterns.executive_errors,
                  overall_pattern |-> overall_pattern(error_patterns)])

\* analyze_error_patterns reading the sections from the input itself when
\* the key "mmse_sections" is missing
analyze_error_patterns_bare_sections(test_responses) ==
    LET present == TRUE
        mmse_sections == IF "mmse_sections" \in DOMAIN test_responses
                         THEN test_responses["mmse_sections"]
                         ELSE test_responses
        registration_score == section_score(mmse_sections, "registration", 3)
        recall_score == section_score(mmse_sections, "delayed_recall", 3)
        attention_score == section_score(mmse_sections, "attention_calculation", 5)
        naming_score == section_score(mmse_sections, "language_naming", 2)
        repetition_score == section_score(mmse_sections, "language_repetition", 1)
        time_orientation == section_score(mmse_sections, "orientation_time", 5)
        place_orientation == section_score(mmse_sections, "orientation_place", 5)
        error_patterns ==
            [memory_errors |->
                IF present THEN memory_flags(registration_score, recall_score) ELSE <<>>,
             attention_errors |->
                IF present
                THEN attention_flags(attention_score)
                     \o orientation_flags(time_orientation, place_orientation)
                ELSE <<>>,
             language_errors |->
                IF present THEN language_flags(naming_score, repetition_score) ELSE <<>>,
             visuospatial_errors |-> <<>>,
             executive_errors |-> <<>>]
    IN  Returned([memory_errors |-> error_patterns.memory_errors,
                  attention_errors |-> error_patterns.attention_errors,
                  language_errors |-> error_patterns.language_errors,
                  visuospatial_errors |-> error_patterns.visuospatial_errors,
                  executive_errors |-> error_patterns.executive_errors,
                  overall_pattern |-> overall_pattern(error_patterns)])

analyze_error_patterns(test_responses) ==
    LET present == "mmse_sections" \in DOMAIN test_responses
        mmse_sections == test_responses["mmse_sections"]
        registration_score == section_score(mmse_sections, "registration", 3)
        recall_score == section_score(mmse_sections, "delayed_recall", 3)
        attention_score == section_score(mmse_sections, "attention_calculation", 5)
        naming_score == section_score(mmse_sections, "language_naming", 2)
        repetition_score == section_score(mmse_sections, "language_repetition", 1)
        time_orientation == section_score(mmse_sections, "orientation_time", 5)
        place_orientation == section_score(mmse_sections, "orientation_place", 5)
        error_patterns ==
            [memory_errors |->
                IF present THEN memory_flags(registration_score, recall_score) ELSE <<>>,
             attention_errors |->
                IF present
                THEN attention_flags(attention_score)
                     \o orientation_flags(time_orientation, place_orientation)
                ELSE <<>>,
             language_errors |->
                IF present THEN language_flags(naming_score, repetition_score) ELSE <<>>,
             visuospatial_errors |-> <<>>,
             executive_errors |-> <<>>]
    IN  Returned([memory_errors |-> error_patterns.memory_errors,
                  attention_errors |-> error_patterns.attention_errors,
                  language_errors |-> error_patterns.language_errors,
                  visuospatial_errors |-> error_patterns.visuospatial_errors,
                  executive_errors |-> error_patterns.executive_errors,
                  overall_pattern |-> overall_pattern(error_patterns)])

\* what a caller puts under a section name: nothing, a section without a
\* score, or a section with one of its scores
Absent == 0 - 2
NoScore == 0 - 1
SectionChoices(name) == {Absent, NoScore} \cup (0..FullCredit[name])

\* the section-score bundle chosen by c, a function from section names to choices
Sections(c) ==
    [name \in {n \in SectionNames : c[n] # Absent} |->
        IF c[name] = NoScore THEN EmptyDict ELSE [score |-> c[name]]]

InitPatterns ==
    /\ InitInstance
    /\ op = "analyze_error_patterns"
    /\ \E reg \in SectionChoices("registration"), rec \in SectionChoices("delayed_recall"),
          att \in SectionChoices("attention_calculation"),
          nam \in SectionChoices("language_naming"),
          rep \in SectionChoices("language_repetition"),
          tim \in SectionChoices("orientation_time"),
          pla \in SectionChoices("orientation_place") :
            args = [test_responses |->
                     [mmse_sections |->
                        Sections(("registration" :> reg) @@ ("delayed_recall" :> rec)
                              @@ ("attention_calculation" :> att)
                              @@ ("language_naming" :> nam) @@ ("language_repetition" :> rep)
                              @@ ("orientation_time" :> tim) @@ ("orientation_place" :> pla))]]

CallAnalyzeErrorPatterns ==
    /\ pc = "call" /\ op = "analyze_error_patterns"
    /\ ret' = analyze_error_patterns(args.test_responses)
    /\ pc' = "done"
    /\ UNCHANGED <<scoring, op, args, callers, db>>

SpecPatterns == InitPatterns /\ [][CallAnalyzeErrorPatterns]_vars

\* the score the bundle of the call carries for a section, full credit where
\* the section or its score is missing
EffScore(name) ==
    LET ms == args.test_responses.mmse_sections
    IN  IF name \in DOMAIN ms /\ "score" \in DOMAIN ms[name]
        THEN ms[name].score
        ELSE FullCredit[name]

Count(seq, text) == Cardinality({i \in 1..Len(seq) : seq[i] = text})
\* occurrences of a flag in the five buckets of a result
CountAll(v, text) ==
    Count(v.memory_errors, text) + Count(v.attention_errors, text)
    + Count(v.language_errors, text) + Count(v.visuospatial_errors, text)
    + Count(v.executive_errors, text)
TotalFlags(v) ==
    Len(v.memory_errors) + Len(v.attention_errors) + Len(v.language_errors)
    + Len(v.visuospatial_errors) + Len(v.executive_errors)
B(cond) == IF cond THEN 1 ELSE 0

\* C12: each threshold rule of analyze_error_patterns that holds emits its
\* flag exactly once and no other flag is emitted: registration < 3,
\* delayed_recall < 2, delayed_recall < registration (memory); attention < 3
\* and attention < 2 (attention); naming < 2, repetition < 1 (language);
\* orientation_time < 4, orientation_place < 4.
C12_ThresholdRules ==
    Done("analyze_error_patterns") =>
        /\ ret.status = "ok"
        /\ LET v == ret.value
               reg == EffScore("registration")
               rec == EffScore("delayed_recall")
               att == EffScore("attention_calculation")
               nam == EffScore("language_naming")
               rep == EffScore("language_repetition")
               tim == EffScore("orientation_time")
               pla == EffScore("orientation_place")
           IN  /\ Count(v.memory_errors, "Immediate memory registration deficit") = B(reg < 3)
               /\ Count(v.memory_errors, "Delayed recall impairment") = B(rec < 2)
               /\ Count(v.memory_errors, "Memory consolidation deficit") = B(rec < reg)
               /\ Count(v.attention_errors, "Sustained attention impairment") = B(att < 3)
               /\ Count(v.attention_errors, "Working memory deficit") = B(att < 2)
               /\ Count(v.language_errors, "Object naming difficulty") = B(nam < 2)
               /\ Count(v.language_errors, "Complex phrase repetition deficit") = B(rep < 1)
               /\ CountAll(v, "Temporal orientation impairment") = B(tim < 4)
               /\ CountAll(v, "Spatial orientation impairment") = B(pla < 4)
               /\ TotalFlags(v) = B(reg < 3) + B(rec < 2) + B(rec < reg) + B(att < 3)
                                  + B(att < 2) + B(nam < 2) + B(rep < 1) + B(tim < 4)
                                  + B(pla < 4)

\* an attention score of 1 emits both attention flags
C12_Witness ==
    /\ Done("analyze_error_patterns")
    /\ EffScore("attention_calculation") = 1
    /\ Count(ret.value.attention_errors, "Sustained attention impairment") = 1
    /\ Count(ret.value.attention_errors, "Working memory deficit") = 1

\* C13: overall_pattern follows the priority none, memory (>= 2 flags),
\* attention (>= 2 flags), language (>= 1 flag), mixed; with registration 1,
\* delayed_recall 1 and attention 1 the result is memory-predominant.
C13_PatternPriority ==
    Done("analyze_error_patterns") =>
        LET v == ret.value
            m == Len(v.memory_errors)
            a == Len(v.attention_errors)
            l == Len(v.language_errors)
        IN  /\ (TotalFlags(v) = 0) => v.overall_pattern = NoPattern
            /\ (TotalFlags(v) > 0 /\ m >= 2) => v.overall_pattern = MemoryPattern
            /\ (TotalFlags(v) > 0 /\ m < 2 /\ a >= 2) => v.overall_pattern = AttentionPattern
            /\ (TotalFlags(v) > 0 /\ m < 2 /\ a < 2 /\ l >= 1) =>
                    v.overall_pattern = LanguagePattern
            /\ (TotalFlags(v) > 0 /\ m < 2 /\ a < 2 /\ l < 1) => v.overall_pattern = MixedPattern
            /\ (EffScore("registration") = 1 /\ EffScore("delayed_recall") = 1
                    /\ EffScore("attention_calculation") = 1) =>
                    (m >= 2 /\ a >= 2 /\ v.overall_pattern = MemoryPattern)

C13_Witness ==
    /\ Done("analyze_error_patterns")
    /\ EffScore("registration") = 1
    /\ EffScore("delayed_recall") = 1
    /\ EffScore("attention_calculation") = 1
    /\ Len(ret.value.attention_errors) >= 2
    /\ ret.value.overall_pattern = MemoryPattern

\* the bundle of the call with every missing section or score at full credit
FilledBundle ==
    [mmse_sections |-> [name \in SectionNames |-> [score |-> EffScore(name)]]]

\* C14: missing sections and sections without a score count as full credit
\* (3, 3, 5, 2, 1, 5, 5): the call returns what it returns for the bundle
\* with those sections at full credit, a bundle without sections yields no
\* flag, and the call does not raise.
C14_MissingIsFullCredit ==
    Done("analyze_error_patterns") =>
        /\ ret.status = "ok"
        /\ FullCredit["registration"] = 3 /\ FullCredit["delayed_recall"] = 3
        /\ FullCredit["attention_calculation"] = 5 /\ FullCredit["language_naming"] = 2
        /\ FullCredit["language_repetition"] = 1 /\ FullCredit["orientation_time"] = 5
        /\ FullCredit["orientation_place"] = 5
        /\ ret = analyze_error_patterns(FilledBundle)
        /\ (\A name \in SectionNames : EffScore(name) = FullCredit[name]) =>
                (TotalFlags(ret.value) = 0 /\ ret.value.overall_pattern = NoPattern)

\* registration is absent, attention has no score, and neither is flagged
\* while the naming deficit that is present is
C14_Witness ==
    /\ Done("analyze_error_patterns")
    /\ "registration" \notin DOMAIN args.test_responses.mmse_sections
    /\ "attention_calculation" \in DOMAIN args.test_responses.mmse_sections
    /\ "score" \notin DOMAIN args.test_responses.mmse_sections["attention_calculation"]
    /\ EffScore("language_naming") = 1
    /\ TotalFlags(ret.value) = 1

(***************************************************************************)
(* ClinicalScoring.calculate_composite_score                               *)
(*                                                                         *)
(* Weights count hundredths (0.25 is 25).  A composite score is            *)
(* [num, den, ulps]: the fraction num/den, den > 0, and the side on which  *)
(* the double the code returns lies of it: ulps = -1 just below, 0 on it,  *)
(* 1 just above.  Products and sums of scores with weights that are        *)
(* multiples of 0.25 are exact in binary64; with the other weights each    *)
(* product, the sum and the quotient are rounded, and the returned double  *)
(* is the exact quotient or a double next to it on either side             *)
(* (0.25*50 + 0.30*50 over 0.25 + 0.30 is 49.99999999999999, 0.30*56 over  *)
(* 0.30 is 56.00000000000001).  The side is a nondeterministic choice.     *)
(* The mean of the fallback is one correctly rounded quotient of integers  *)
(* and never crosses an integer threshold.                                 *)
(***************************************************************************)
\* the value of an omitted weights argument (Optional[Dict] = None)
None == [is_none |-> TRUE]

default_weights ==
       ("mmse" :> 25) @@ ("moca" :> 25) @@ ("memory_tests" :> 30)
    @@ ("attention_tests" :> 10) @@ ("language_tests" :> 10)

RECURSIVE SumOver(_, _)
\* the sum of f[k] over the keys k in S
SumOver(f, S) ==
    IF S = {} THEN 0
    ELSE LET k == CHOOSE x \in S : TRUE
         IN  f[k] + SumOver(f, S \ {k})

\* the sides on which the returned double can lie of the exact quotient
composite_rounding(test_scores, weights) ==
    LET matched == {name \in DOMAIN test_scores : name \in DOMAIN weights}
    IN  IF SumOver(weights, matched) > 0 /\ \E name \in matched : weights[name] % 25 # 0
        THEN {0 - 1, 0, 1}
        ELSE {0}

\* the composite divided by the sum of all weights, matched or not
composite_score_all_weights(test_scores, weights, rounding) ==
    LET matched == {name \in DOMAIN test_scores : name \in DOMAIN weights}
        weighted_scores == [name \in matched |-> test_scores[name] * weights[name]]
        total_weight == SumOver(weights, matched)
    IN  IF total_weight > 0
        THEN [num |-> SumOver(weighted_scores, matched),
              den |-> SumOver(weights, DOMAIN weights), ulps |-> rounding]
        ELSE IF DOMAIN test_scores # {}
        THEN [num |-> SumOver(test_scores, DOMAIN test_scores),
              den |-> Cardinality(DOMAIN test_scores), ulps |-> 0]
        ELSE [num |-> 0, den |-> 1, ulps |-> 0]

\* the composite without the mean of the scores as fallback
composite_score_no_mean(test_scores, weights, rounding) ==
    LET matched == {name \in DOMAIN test_scores : name \in DOMAIN weights}
        weighted_scores == [name \in matched |-> test_scores[name] * weights[name]]
        total_weight == SumOver(weights, matched)
    IN  IF total_weight > 0
        THEN [num |-> SumOver(weighted_scores, matched), den |-> total_weight,
              ulps |-> rounding]
        ELSE [num |-> 0, den |-> 1, ulps |-> 0]

\* the loop over test_scores.items() and the division that follows it
composite_score(test_scores, weights, rounding) ==
    LET matched == {name \in DOMAIN test_scores : name \in DOMAIN weights}
        weighted_scores == [name \in matched |-> test_scores[name] * weights[name]]
        total_weight == SumOver(weights, matched)
    IN  IF total_weight > 0
        THEN [num |-> SumOver(weighted_scores, matched), den |-> total_weight,
              ulps |-> rounding]
        ELSE IF DOMAIN test_scores # {}
        THEN [num |-> SumOver(test_scores, DOMAIN test_scores),
              den |-> Cardinality(DOMAIN test_scores), ulps |-> 0]
        ELSE [num |-> 0, den |-> 1, ulps |-> 0]

\* composite >= threshold, for a threshold in whole points
AtLeast(composite, threshold) ==
    \/ composite.num > threshold * composite.den
    \/ composite.num = threshold * composite.den /\ composite.ulps >= 0

\* the risk chain with > instead of >= in every test
risk_category_strict(composite) ==
    IF AtLeast(composite, 85) /\ ~(composite.num = 85 * composite.den /\ composite.ulps = 0)
    THEN "low"
    ELSE IF AtLeast(composite, 70) /\ ~(composite.num = 70 * composite.den /\ composite.ulps = 0)
    THEN "mild"
    ELSE IF AtLeast(composite, 50) /\ ~(composite.num = 50 * composite.den /\ composite.ulps = 0)
    THEN "moderate"
    ELSE "high"

risk_category(composite) ==
    IF AtLeast(composite, 85) THEN "low"
    ELSE IF AtLeast(composite, 70) THEN "mild"
    ELSE IF AtLeast(composite, 50) THEN "moderate"
    ELSE "high"

calculate_composite_score(test_scores, weights, rounding) ==
    LET weights_used == IF weights = None THEN default_weights ELSE weights
        composite == composite_score(test_scores, weights_used, rounding)
    IN  Returned([composite_score |-> composite,
                  risk_category |-> risk_category(composite),
                  individual_scores |-> test_scores,
                  weights_used |-> weights_used])

\* test names a caller reports: the keys of the default weights and one other
TestNames == DOMAIN default_weights \cup {"unknown_test"}
\* scores on, below and between the three category thresholds
TestScoreValues == {49, 50, 70, 80, 85}
\* a caller passes no weights, or a map of its own
WeightChoices ==
    {None,
     ("mmse" :> 60) @@ ("unknown_test" :> 40),
     ("mmse" :> 0) @@ ("moca" :> 0)}

\* the score map chosen by c: a function from test names to a score or Absent
TestScores(c) == [name \in {n \in TestNames : c[n] # Absent} |-> c[name]]

InitComposite ==
    /\ InitInstance
    /\ op = "calculate_composite_score"
    /\ \E w \in WeightChoices :
       \E c \in [TestNames -> TestScoreValues \cup {Absent}] :
            args = [test_scores |-> TestScores(c), weights |-> w]

CallCalculateCompositeScore ==
    /\ pc = "call" /\ op = "calculate_composite_score"
    /\ \E rounding \in composite_rounding(args.test_scores,
                IF args.weights = None THEN default_weights ELSE args.weights) :
            ret' = calculate_composite_score(args.test_scores, args.weights, rounding)
    /\ pc' = "done"
    /\ UNCHANGED <<scoring, op, args, callers, db>>

SpecComposite == InitComposite /\ [][CallCalculateCompositeScore]_vars

\* the weights a composite call resolves, and the names that match them
WeightsUsed == IF args.weights = None THEN default_weights ELSE args.weights
Matched == {name \in DOMAIN args.test_scores : name \in DOMAIN WeightsUsed}
MatchedWeight == SumOver(WeightsUsed, Matched)

\* C15: when the matched weights sum to more than 0 the composite is the sum
\* of score * weight over the matched names divided by the sum of the matched
\* weights (not of all weights), and the unmatched names have no effect.
C15_MatchedWeightSum ==
    (Done("calculate_composite_score") /\ Matched # {} /\ MatchedWeight > 0) =>
        /\ ret.status = "ok"
        /\ LET c == ret.value.composite_score
               weighted == [name \in Matched |-> args.test_scores[name] * WeightsUsed[name]]
               only_matched == [name \in Matched |-> args.test_scores[name]]
           IN  /\ c.den > 0
               /\ c.num * MatchedWeight = SumOver(weighted, Matched) * c.den
               /\ \E rounding \in {0 - 1, 0, 1} :
                    ret.value.composite_score =
                        calculate_composite_score(only_matched, args.weights,
                                                  rounding).value.composite_score

\* mmse 80 alone under the default weights: 0.25 * 80 / 0.25 = 80, not 20
C15_Witness ==
    /\ Done("calculate_composite_score")
    /\ args.weights = None
    /\ args.test_scores = ("mmse" :> 80) @@ ("unknown_test" :> 49)
    /\ ret.value.composite_score.num = 80 * ret.value.composite_score.den

\* C16: when no score name is a weight key the composite is the arithmetic
\* mean of all scores ({"unknown_test": 80} gives 80), and 0 for an empty
\* score map; the call does not raise.
C16_MeanFallback ==
    Done("calculate_composite_score") =>
        /\ ret.status = "ok"
        /\ LET c == ret.value.composite_score
               names == DOMAIN args.test_scores
           IN  /\ (Matched = {} /\ names # {}) =>
                    /\ c.num * Cardinality(names) = SumOver(args.test_scores, names) * c.den
                    /\ c.ulps = 0
               /\ (names = {}) => (c.num = 0 /\ c.ulps = 0)
               /\ (args.weights = None /\ args.test_scores = ("unknown_test" :> 80)) =>
                    (c.num = 80 * c.den /\ c.ulps = 0)

\* two scores, neither a key of the caller's weights: their mean
C16_Witness ==
    /\ Done("calculate_composite_score")
    /\ args.weights # None
    /\ args.test_scores = ("moca" :> 50) @@ ("memory_tests" :> 85)
    /\ 2 * ret.value.composite_score.num = 135 * ret.value.composite_score.den

\* C17: the composite maps to one risk category: low from 85, mild from 70,
\* moderate from 50, high below; 85, 70 and 50 belong to the better category.
C17_RiskCategories ==
    Done("calculate_composite_score") =>
        LET c == ret.value.composite_score
            cat == ret.value.risk_category
        IN  /\ cat \in {"low", "mild", "moderate", "high"}
            /\ (cat = "low") <=> AtLeast(c, 85)
            /\ (cat = "mild") <=> (AtLeast(c, 70) /\ ~AtLeast(c, 85))
            /\ (cat = "moderate") <=> (AtLeast(c, 50) /\ ~AtLeast(c, 70))
            /\ (cat = "high") <=> ~AtLeast(c, 50)
            /\ (c.ulps = 0 /\ c.num = 85 * c.den) => cat = "low"
            /\ (c.ulps = 0 /\ c.num = 70 * c.den) => cat = "mild"
            /\ (c.ulps = 0 /\ c.num = 50 * c.den) => cat = "moderate"

\* a composite of exactly 70 is mild
C17_Witness ==
    /\ Done("calculate_composite_score")
    /\ ret.value.composite_score.num = 70 * ret.value.composite_score.den
    /\ ret.value.composite_score.ulps = 0
    /\ ret.value.risk_category = "mild"

(***************************************************************************)
(* Concurrent callers of one ClinicalScoring instance.                     *)
(* A scorer reads the shared tables and then computes on what it read;     *)
(* other callers run between the reads and the return.  seen is the        *)
(* instance as the caller's reads found it.  The other three methods read  *)
(* nothing shared: analyze_error_patterns and calculate_composite_score    *)
(* build their dicts and lists anew in every call.                         *)
(***************************************************************************)
\* number of concurrent callers
NumCallers == 2
Callers == 1..NumCallers

\* what one caller may ask for
CallerRequests ==
    {[op |-> m, args |-> ScoreArgs(r, 68, l)] :
        m \in {"score_mmse_with_norms", "score_moca_with_norms"},
        r \in {220, 295}, l \in {"primary", "graduate"}}
    \cup {[op |-> "calculate_percentile", args |-> [z_score |-> [n |-> k, d |-> 1]]] :
            k \in {0, 1}}
    \cup {[op |-> "analyze_error_patterns",
           args |-> [test_responses |-> [mmse_sections |-> ms]]] :
            ms \in {EmptyDict, [registration |-> [score |-> 1], delayed_recall |-> [score |-> 1]]}}
    \cup {[op |-> "calculate_composite_score", args |-> [test_scores |-> ts, weights |-> None]] :
            ts \in {("mmse" :> 80), ("unknown_test" :> 80)}}

InitConcurrent ==
    /\ scoring = ClinicalScoring
    /\ db = <<>>
    /\ pc = "idle" /\ op = "none" /\ args = <<>> /\ ret = Pending
    /\ \E req \in [Callers -> CallerRequests] :
        callers = [c \in Callers |->
                    [pc |-> "call", op |-> req[c].op, args |-> req[c].args,
                     seen |-> None, ret |-> Pending]]

\* score_mmse_with_norms: the subscripts of the try block read the table
MMSELookup(c) ==
    /\ callers[c].pc = "call" /\ callers[c].op = "score_mmse_with_norms"
    /\ callers' = [callers EXCEPT ![c].seen = scoring, ![c].pc = "looked_up"]
    /\ UNCHANGED <<scoring, pc, op, args, ret, db>>

MMSEReturn(c) ==
    /\ callers[c].pc = "looked_up" /\ callers[c].op = "score_mmse_with_norms"
    /\ callers' = [callers EXCEPT
            ![c].ret = score_mmse_with_norms(callers[c].seen, callers[c].args.raw_score,
                            callers[c].args.age, callers[c].args.education_level),
            ![c].pc = "done"]
    /\ UNCHANGED <<scoring, pc, op, args, ret, db>>

\* score_moca_with_norms: the read of education_adjustment
MoCAAdjust(c) ==
    /\ callers[c].pc = "call" /\ callers[c].op = "score_moca_with_norms"
    /\ callers' = [callers EXCEPT ![c].seen = scoring, ![c].pc = "adjusted"]
    /\ UNCHANGED <<scoring, pc, op, args, ret, db>>

\* the lookup decrementing the cutoff of the shared row for the callers it
\* adjusts, instead of leaving the table alone
MoCALookup_in_place(c) ==
    /\ callers[c].pc = "adjusted" /\ callers[c].op = "score_moca_with_norms"
    /\ callers' = [callers EXCEPT
            ![c].seen = [scoring EXCEPT !.norms.moca_norms.education_adjustment =
                            callers[c].seen.norms.moca_norms.education_adjustment],
            ![c].pc = "looked_up"]
    /\ scoring' = IF callers[c].args.education_level \in {"non_educated", "primary"}
                  THEN [scoring EXCEPT
                        !.norms.moca_norms.by_age_education[
                            moca_age_group(callers[c].args.age)][
                            moca_edu_group(callers[c].args.education_level)].cutoff = @ - 1]
                  ELSE scoring
    /\ UNCHANGED <<pc, op, args, ret, db>>

\* score_moca_with_norms: the subscripts that read the table row
MoCALookup(c) ==
    /\ callers[c].pc = "adjusted" /\ callers[c].op = "score_moca_with_norms"
    /\ callers' = [callers EXCEPT
            ![c].seen = [scoring EXCEPT !.norms.moca_norms.education_adjustment =
                            callers[c].seen.norms.moca_norms.education_adjustment],
            ![c].pc = "looked_up"]
    /\ UNCHANGED <<scoring, pc, op, args, ret, db>>

MoCAReturn(c) ==
    /\ callers[c].pc = "looked_up" /\ callers[c].op = "score_moca_with_norms"
    /\ callers' = [callers EXCEPT
            ![c].ret = score_moca_with_norms(callers[c].seen, callers[c].args.raw_score,
                            callers[c].args.age, callers[c].args.education_level),
            ![c].pc = "done"]
    /\ UNCHANGED <<scoring, pc, op, args, ret, db>>

\* the methods that read no shared state
LocalCall(c) ==
    /\ callers[c].pc = "call"
    /\ \/ /\ callers[c].op = "calculate_percentile"
          /\ callers' = [callers EXCEPT
                ![c].ret = Returned(calculate_percentile(callers[c].args.z_score)),
                ![c].pc = "done"]
       \/ /\ callers[c].op = "analyze_error_patterns"
          /\ callers' = [callers EXCEPT
                ![c].ret = analyze_error_patterns(callers[c].args.test_responses),
                ![c].pc = "done"]
       \/ /\ callers[c].op = "calculate_composite_score"
          /\ \E rounding \in composite_rounding(callers[c].args.test_scores, default_weights) :
                callers' = [callers EXCEPT
                    ![c].ret = calculate_composite_score(callers[c].args.test_scores,
                                    callers[c].args.weights, rounding),
                    ![c].pc = "done"]
    /\ UNCHANGED <<scoring, pc, op, args, ret, db>>

NextConcurrent ==
    \E c \in Callers :
        \/ MMSELookup(c)
        \/ MMSEReturn(c)
        \/ MoCAAdjust(c)
        \/ MoCALookup(c)
        \/ MoCAReturn(c)
        \/ LocalCall(c)

SpecConcurrent == InitConcurrent /\ [][NextConcurrent]_vars

\* the results a request can have when it is the only call on a fresh instance
ResultsAlone(m, a) ==
    CASE m = "score_mmse_with_norms" ->
            {score_mmse_with_norms(ClinicalScoring, a.raw_score, a.age, a.education_level)}
      [] m = "score_moca_with_norms" ->
            {score_moca_with_norms(ClinicalScoring, a.raw_score, a.age, a.education_level)}
      [] m = "calculate_percentile" -> {Returned(calculate_percentile(a.z_score))}
      [] m = "analyze_error_patterns" -> {analyze_error_patterns(a.test_responses)}
      [] m = "calculate_composite_score" ->
            {calculate_composite_score(a.test_scores, a.weights, r) :
                r \in composite_rounding(a.test_scores, default_weights)}

\* C18: no call modifies the normative tables, and under every interleaving
\* of concurrent callers each call returns what it returns when run alone.
C18_Stateless ==
    /\ scoring = ClinicalScoring
    /\ \A c \in DOMAIN callers :
        callers[c].pc = "done" =>
            callers[c].ret \in ResultsAlone(callers[c].op, callers[c].args)

\* two MoCA calls on the same row, one of them education-adjusted, both
\* returned after the other had read the table
C18_Witness ==
    /\ DOMAIN callers = Callers
    /\ \A c \in Callers : callers[c].pc = "done"
    /\ callers[1].op = "score_moca_with_norms"
    /\ callers[1].args.education_level = "primary"
    /\ callers[2].op = "score_moca_with_norms"
    /\ callers[2].args.education_level = "primary"
    /\ callers[2].ret.status = "ok"
    /\ callers[2].ret.value.clinical_cutoff = 21

\* C19: the except branch of score_mmse_with_norms is never taken: the MMSE
\* table has 8 age bands with 4 education bands each, and for every age and
\* label the resolved pair is one of its 32 cells, whose row the call uses.
C19_FallbackUnreachable ==
    LET table == scoring.norms.mmse_norms.by_age_education
    IN  /\ Cardinality(DOMAIN table) = 8
        /\ \A ag \in DOMAIN table :
                DOMAIN table[ag] = {"grade_0-4", "grade_5-8", "grade_9-12", "college"}
        /\ Done("score_mmse_with_norms") =>
                /\ ret.status = "ok"
                /\ get_age_group(args.age) \in DOMAIN table
                /\ get_education_group(args.education_level)
                        \in DOMAIN table[get_age_group(args.age)]
                /\ LET row == table[get_age_group(args.age)][
                                get_education_group(args.education_level)]
                   IN  /\ <<ret.value.expected_mean, ret.locals.expected_std,
                             ret.value.clinical_cutoff>> = <<row.mean, row.std, row.cutoff>>
                       /\ <<row.mean, row.std, row.cutoff>> # <<240, 30, 20>>

\* an age above every band and a label outside the map resolve to a cell
C19_Witness ==
    /\ Done("score_mmse_with_norms")
    /\ args.age = 100
    /\ args.education_level = "unknown"
    /\ ret.value.expected_mean = 258
    /\ ret.locals.expected_std = 34

\* the rows of a table by_age_education
Rows(table) == UNION {{table[ag][eg] : eg \in DOMAIN table[ag]} : ag \in DOMAIN table}

\* C20: every row the two scorers can resolve (each MMSE cell, the MMSE
\* fallback row, each MoCA cell) has std > 0, so (score - mean) / std never
\* divides by zero: every call returns with the z-score over a positive std.
C20_StdPositive ==
    /\ \A row \in Rows(scoring.norms.mmse_norms.by_age_education) : row.std > 0
    /\ \A row \in Rows(scoring.norms.moca_norms.by_age_education) : row.std > 0
    /\ \A ag \in DOMAIN scoring.norms.mmse_norms.by_age_education :
            /\ mmse_norm_data(WithoutBand(scoring, ag), ag, "college").std > 0
            /\ mmse_norm_data(WithoutCell(scoring, ag, "college"), ag, "college").std > 0
    /\ (Done("score_mmse_with_norms") \/ Done("score_moca_with_norms")) =>
            /\ ret.status = "ok"
            /\ ret.locals.expected_std > 0
            /\ ret.value.z_score.d > 0

\* a call has divided a non-zero difference by the smallest std of the tables
C20_Witness ==
    /\ Done("score_mmse_with_norms")
    /\ ret.status = "ok"
    /\ ret.locals.expected_std = 18
    /\ ret.value.z_score = [n |-> 0 - 285, d |-> 18]

(***************************************************************************)
(* Relational properties of the scorers                                    *)
(***************************************************************************)
\* risk levels from best to worst
RiskRank(risk_level) ==
    CASE risk_level = "low" -> 0
      [] risk_level = "mild" -> 1
      [] risk_level = "moderate" -> 2
      [] risk_level = "high" -> 3

\* the integer raw scores of the instrument, in tenths
IntegerRaws == {10 * k : k \in 0..30}

\* C21: in the MMSE row of every call cutoff - 5 < cutoff < mean - 0.5 std,
\* each of the four tiers is taken by some integer raw score in 0..30, and
\* for a fixed age and label a higher raw score never yields a worse risk
\* level (every age band and label is called, so every row is covered).
C21_MMSEMonotone ==
    Done("score_mmse_with_norms") =>
        /\ ret.status = "ok"
        /\ LET row == scoring.norms.mmse_norms.by_age_education[
                            ret.locals.age_group][ret.locals.edu_group]
           IN  /\ row.cutoff - 5 < row.cutoff
               /\ 2 * 10 * row.cutoff < 2 * row.mean - row.std
               /\ \A level \in {"low", "mild", "moderate", "high"} :
                    \E r \in IntegerRaws :
                        mmse_interpretation(r, row.mean, row.std, row.cutoff)[2] = level
        /\ \A r \in IntegerRaws \cup {args.raw_score + 1} :
                LET other == score_mmse_with_norms(scoring, r, args.age,
                                                   args.education_level)
                    rank == RiskRank(other.value.risk_level)
                IN  /\ other.status = "ok"
                    /\ r >= args.raw_score => rank <= RiskRank(ret.value.risk_level)
                    /\ r <= args.raw_score => rank >= RiskRank(ret.value.risk_level)

\* a call in the moderate tier, with better and worse tiers on either side
C21_Witness ==
    /\ Done("score_mmse_with_norms")
    /\ args.age = 72
    /\ args.education_level = "primary"
    /\ args.raw_score = 165
    /\ ret.value.risk_level = "moderate"
    /\ score_mmse_with_norms(scoring, 170, 72, "primary").value.risk_level = "mild"
    /\ score_mmse_with_norms(scoring, 110, 72, "primary").value.risk_level = "high"

(***************************************************************************)
(* binary64 arithmetic                                                     *)
(*                                                                         *)
(* Python floats are IEEE 754 binary64 and every operation rounds its      *)
(* exact result to the nearest double, ties to even.  The operators below  *)
(* compute those doubles bit for bit, for the sections that follow, which  *)
(* evaluate the source's expressions as the interpreter does.              *)
(***************************************************************************)
\* naturals of any size: little-endian sequences of limbs below LimbBase,
\* without leading zero limbs
LimbBits == 15
LimbBase == 2 ^ LimbBits

RECURSIVE NTrim(_)
NTrim(a) == IF Len(a) > 0 /\ a[Len(a)] = 0 THEN NTrim(SubSeq(a, 1, Len(a) - 1)) ELSE a

Limb(a, i) == IF i <= Len(a) THEN a[i] ELSE 0

RECURSIVE NFromInt(_)
NFromInt(n) == IF n = 0 THEN <<>> ELSE <<n % LimbBase>> \o NFromInt(n \div LimbBase)

RECURSIVE NAddC(_, _, _, _)
NAddC(a, b, i, carry) ==
    IF i > Len(a) /\ i > Len(b) THEN (IF carry = 0 THEN <<>> ELSE <<carry>>)
    ELSE LET t == Limb(a, i) + Limb(b, i) + carry
         IN  <<t % LimbBase>> \o NAddC(a, b, i + 1, t \div LimbBase)
NAdd(a, b) == NAddC(a, b, 1, 0)

RECURSIVE NSubC(_, _, _, _)
NSubC(a, b, i, borrow) ==
    IF i > Len(a) THEN <<>>
    ELSE LET t == a[i] - Limb(b, i) - borrow
         IN  <<(t + LimbBase) % LimbBase>> \o NSubC(a, b, i + 1, IF t < 0 THEN 1 ELSE 0)
\* a - b for a >= b
NSub(a, b) == NTrim(NSubC(a, b, 1, 0))

RECURSIVE NCmpAt(_, _, _)
NCmpAt(a, b, i) ==
    IF i = 0 THEN 0
    ELSE IF a[i] # b[i] THEN (IF a[i] < b[i] THEN 0 - 1 ELSE 1)
    ELSE NCmpAt(a, b, i - 1)
\* -1, 0, 1 as a < b, a = b, a > b
NCmp(a, b) ==
    IF Len(a) # Len(b) THEN (IF Len(a) < Len(b) THEN 0 - 1 ELSE 1)
    ELSE NCmpAt(a, b, Len(a))

RECURSIVE NMulSmallC(_, _, _, _)
NMulSmallC(a, k, i, carry) ==
    IF i > Len(a) THEN (IF carry = 0 THEN <<>> ELSE <<carry>>)
    ELSE LET t == a[i] * k + carry
         IN  <<t % LimbBase>> \o NMulSmallC(a, k, i + 1, t \div LimbBase)
\* a * k for a limb k
NMulSmall(a, k) == IF k = 0 THEN <<>> ELSE NMulSmallC(a, k, 1, 0)

RECURSIVE NMulAt(_, _, _)
NMulAt(a, b, j) ==
    IF j > Len(b) THEN <<>>
    ELSE LET rest == NMulAt(a, b, j + 1)
         IN  NAdd(NMulSmall(a, b[j]), IF rest = <<>> THEN <<>> ELSE <<0>> \o rest)
NMul(a, b) == NMulAt(a, b, 1)

Zeros(k) == [i \in 1..k |-> 0]
\* a * 2^n
NShl(a, n) ==
    IF a = <<>> THEN <<>>
    ELSE Zeros(n \div LimbBits) \o NMulSmall(a, 2 ^ (n % LimbBits))
\* a \div 2^n
NShr(a, n) ==
    LET q == n \div LimbBits
        r == n % LimbBits
        d == IF q >= Len(a) THEN <<>> ELSE SubSeq(a, q + 1, Len(a))
    IN  IF r = 0 THEN d
        ELSE NTrim([i \in 1..Len(d) |->
                (d[i] \div (2 ^ r)) + (Limb(d, i + 1) % (2 ^ r)) * (2 ^ (LimbBits - r))])

RECURSIVE BitLenSmall(_)
BitLenSmall(x) == IF x = 0 THEN 0 ELSE 1 + BitLenSmall(x \div 2)
NBitLen(a) == IF a = <<>> THEN 0 ELSE LimbBits * (Len(a) - 1) + BitLenSmall(a[Len(a)])
NOdd(a) == a # <<>> /\ a[1] % 2 = 1

\* a binary64 number: sign * m * 2^e with m of exactly 53 bits, or zero
\* (sign 0); subnormals, infinities and NaN do not occur in these computations
Zero64 == [sign |-> 0, m |-> <<>>, e |-> 0]

\* the double nearest to sign * n * 2^e (+ a positive amount below the last
\* bit of n when sticky), ties to even
Round64(sign, n, e, sticky) ==
    LET len == NBitLen(n)
    IN  IF len = 0 THEN Zero64
        ELSE IF len <= 53 THEN [sign |-> sign, m |-> NShl(n, 53 - len), e |-> e - (53 - len)]
        ELSE LET sh == len - 53
                 m == NShr(n, sh)
                 rem == NSub(n, NShl(m, sh))
                 half == NShl(<<1>>, sh - 1)
                 c == NCmp(rem, half)
                 up == c > 0 \/ (c = 0 /\ (sticky \/ NOdd(m)))
                 m1 == IF up THEN NAdd(m, <<1>>) ELSE m
             IN  IF NBitLen(m1) > 53
                 THEN [sign |-> sign, m |-> NShr(m1, 1), e |-> e + sh + 1]
                 ELSE [sign |-> sign, m |-> m1, e |-> e + sh]

FromInt64(k) ==
    IF k = 0 THEN Zero64
    ELSE Round64(IF k < 0 THEN 0 - 1 ELSE 1, NFromInt(IF k < 0 THEN 0 - k ELSE k), 0, FALSE)

Neg64(a) == [a EXCEPT !.sign = 0 - a.sign]

Mul64(a, b) ==
    IF a.sign = 0 \/ b.sign = 0 THEN Zero64
    ELSE Round64(a.sign * b.sign, NMul(a.m, b.m), a.e + b.e, FALSE)

Add64(a, b) ==
    IF a.sign = 0 THEN b
    ELSE IF b.sign = 0 THEN a
    ELSE LET e == IF a.e <= b.e THEN a.e ELSE b.e
             x == NShl(a.m, a.e - e)
             y == NShl(b.m, b.e - e)
             c == NCmp(x, y)
         IN  IF a.sign = b.sign THEN Round64(a.sign, NAdd(x, y), e, FALSE)
             ELSE IF c = 0 THEN Zero64
             ELSE IF c > 0 THEN Round64(a.sign, NSub(x, y), e, FALSE)
             ELSE Round64(b.sign, NSub(y, x), e, FALSE)

Sub64(a, b) == Add64(a, Neg64(b))

\* one step of binary long division of a remainder r < d: the next quotient
\* bit is shifted into q
DivStep(qr, d) ==
    LET r2 == NAdd(qr[2], qr[2])
        q2 == NAdd(qr[1], qr[1])
    IN  IF NCmp(r2, d) >= 0 THEN <<NAdd(q2, <<1>>), NSub(r2, d)>> ELSE <<q2, r2>>

RECURSIVE DivBits(_, _, _)
\* k steps: <<quotient, remainder>>
DivBits(qr, d, k) ==
    IF k = 0 \/ Len(qr) # 2 THEN qr ELSE DivBits(DivStep(qr, d), d, k - 1)

Div64(a, b) ==
    IF a.sign = 0 THEN Zero64
    ELSE LET first == NCmp(a.m, b.m) >= 0
             r0 == IF first THEN NSub(a.m, b.m) ELSE a.m
             q0 == IF first THEN <<1>> ELSE <<>>
             qr == DivBits(<<q0, r0>>, b.m, 55)
         IN  Round64(a.sign * b.sign, qr[1], a.e - b.e - 55, qr[2] # <<>>)

\* a ** k for k = 2, 3
Pow64(a, k) ==
    IF a.sign = 0 THEN Zero64
    ELSE IF k = 2 THEN Round64(1, NMul(a.m, a.m), 2 * a.e, FALSE)
    ELSE Round64(a.sign, NMul(NMul(a.m, a.m), a.m), 3 * a.e, FALSE)

\* the decimal literal d / 10^k: both are exact doubles and the quotient is
\* rounded once, as the literal is
Dec64(d, k) == Div64(FromInt64(d), FromInt64(10 ^ k))

\* a < b, a <= b
Less64(a, b) ==
    IF a.sign # b.sign THEN a.sign < b.sign
    ELSE IF a.sign = 0 THEN FALSE
    ELSE LET c == IF a.e # b.e THEN (IF a.e < b.e THEN 0 - 1 ELSE 1) ELSE NCmp(a.m, b.m)
         IN  IF a.sign > 0 THEN c < 0 ELSE c > 0
Leq64(a, b) == a = b \/ Less64(a, b)
Max64(a, b) == IF Less64(a, b) THEN b ELSE a
Min64(a, b) == IF Less64(b, a) THEN b ELSE a

\* the literals of calculate_percentile
Literal0_1 == Dec64(1, 1)
Literal99_9 == Dec64(999, 1)
Literal34_13 == Dec64(3413, 2)
Literal2_78 == Dec64(278, 2)
Literal0_74 == Dec64(74, 2)

(***************************************************************************)
(* ClinicalScoring.calculate_percentile on binary64 arguments              *)
(***************************************************************************)
\* calculate_percentile with the two shortcut results exchanged
calculate_percentile_binary64_swapped(z_score) ==
    IF Less64(z_score, FromInt64(0 - 3)) THEN Literal99_9
    ELSE IF Less64(FromInt64(3), z_score) THEN Literal0_1
    ELSE LET percentile ==
                Add64(Sub64(Add64(FromInt64(50), Mul64(Literal34_13, z_score)),
                            Mul64(Literal2_78, Pow64(z_score, 2))),
                      Mul64(Literal0_74, Pow64(z_score, 3)))
         IN  Max64(Literal0_1, Min64(Literal99_9, percentile))

\* 50 + 34.13 * z - 2.78 * (z ** 2) + 0.74 * (z ** 3), evaluated left to right
calculate_percentile_binary64(z_score) ==
    IF Less64(z_score, FromInt64(0 - 3)) THEN Literal0_1
    ELSE IF Less64(FromInt64(3), z_score) THEN Literal99_9
    ELSE LET percentile ==
                Add64(Sub64(Add64(FromInt64(50), Mul64(Literal34_13, z_score)),
                            Mul64(Literal2_78, Pow64(z_score, 2))),
                      Mul64(Literal0_74, Pow64(z_score, 3)))
         IN  Max64(Literal0_1, Min64(Literal99_9, percentile))

\* z_score = (raw_score - expected_mean) / expected_std as the scorers compute
\* it, from a raw score, a mean and a std given in tenths
z_score_binary64(raw10, mean10, std10) ==
    Div64(Sub64(Dec64(raw10, 1), Dec64(mean10, 1)), Dec64(std10, 1))

\* the z-scores passed to calculate_percentile: those of the raw scores
\* Z64RawLo/10 .. Z64RawHi/10 against the MMSE rows 30-39/grade_0-4 and
\* 70-79/grade_5-8, and numbers on and around the two shortcuts
Z64RawLo == 240
Z64RawHi == 270
Z64Inputs ==
    {z_score_binary64(raw10, row.mean, row.std) :
        raw10 \in Z64RawLo..Z64RawHi,
        row \in {mmse_norms.by_age_education["30-39"]["grade_0-4"],
                 mmse_norms.by_age_education["70-79"]["grade_5-8"]}}
    \cup {FromInt64(k) : k \in (0 - 4)..4}
    \cup {Dec64(0 - 35, 1), Dec64(35, 1), Dec64(0 - 301, 2), Dec64(301, 2)}

InitPercentile64 ==
    /\ InitInstance
    /\ op = "calculate_percentile"
    /\ \E z \in Z64Inputs : args = [z_score |-> z]

CallCalculatePercentile64 ==
    /\ pc = "call" /\ op = "calculate_percentile"
    /\ ret' = Returned(calculate_percentile_binary64(args.z_score))
    /\ pc' = "done"
    /\ UNCHANGED <<scoring, op, args, callers, db>>

SpecPercentile64 == InitPercentile64 /\ [][CallCalculatePercentile64]_vars

\* what calculate_percentile returns for each of the inputs
PercentileOf == [z \in Z64Inputs |-> calculate_percentile_binary64(z)]
\* the tolerance of the amended claim, 1e-9
Tolerance64 == Dec64(1, 9)

\* C22 as stated: for all z1 <= z2 the returned percentiles satisfy
\* calculate_percentile(z1) <= calculate_percentile(z2).
C22_PercentileMonotone ==
    Done("calculate_percentile") =>
        \A z2 \in Z64Inputs :
            Leq64(args.z_score, z2) => Leq64(ret.value, PercentileOf[z2])

\* C22 amended: calculate_percentile is monotone non-decreasing up to the
\* rounding of binary64, across z = -3 and z = 3 as well: for all z1 <= z2,
\* calculate_percentile(z1) <= calculate_percentile(z2) + 1e-9.
C22_MonotoneUpToRounding ==
    Done("calculate_percentile") =>
        \A z2 \in Z64Inputs :
            Leq64(args.z_score, z2) =>
                Leq64(ret.value, Add64(PercentileOf[z2], Tolerance64))

\* z = (24.7 - 21.9) / 4.2 lies below z = (26.5 - 23.9) / 3.9 and its
\* percentile above, by less than the tolerance
C22_Witness ==
    /\ Done("calculate_percentile")
    /\ args.z_score = z_score_binary64(247, 219, 42)
    /\ LET z2 == z_score_binary64(265, 239, 39)
       IN  /\ z2 \in Z64Inputs
           /\ Less64(args.z_score, z2)
           /\ Less64(PercentileOf[z2], ret.value)
           /\ Leq64(ret.value, Add64(PercentileOf[z2], Tolerance64))

(***************************************************************************)
(* analyze_error_patterns: further properties                              *)
(***************************************************************************)
\* C23: whenever delayed_recall < 2 the memory bucket holds at least two
\* flags whatever the other sections score (the recall flag, and the
\* registration flag if registration < 3, else the consolidation flag), and
\* the overall pattern is memory-predominant.
C23_LowRecallIsMemory ==
    (Done("analyze_error_patterns") /\ EffScore("delayed_recall") < 2) =>
        LET v == ret.value
        IN  /\ Len(v.memory_errors) >= 2
            /\ Count(v.memory_errors, "Delayed recall impairment") = 1
            /\ \/ /\ EffScore("registration") < 3
                  /\ Count(v.memory_errors, "Immediate memory registration deficit") = 1
               \/ /\ EffScore("delayed_recall") < EffScore("registration")
                  /\ Count(v.memory_errors, "Memory consolidation deficit") = 1
            /\ v.overall_pattern = MemoryPattern

\* recall 1 with registration at full credit, while attention, language and
\* orientation all score 0
C23_Witness ==
    /\ Done("analyze_error_patterns")
    /\ EffScore("delayed_recall") = 1
    /\ EffScore("registration") = 3
    /\ EffScore("attention_calculation") = 0
    /\ EffScore("language_naming") = 0
    /\ EffScore("orientation_time") = 0
    /\ Len(ret.value.memory_errors) = 2
    /\ Len(ret.value.attention_errors) = 3
    /\ ret.value.overall_pattern = MemoryPattern

\* C24: the visuospatial and executive buckets stay empty; the two
\* orientation deficits are flagged in the attention bucket, so both of them
\* with no other deficit give the attention/executive pattern; one memory
\* flag or one attention flag with no language flag gives the mixed pattern.
C24_OrientationInAttention ==
    Done("analyze_error_patterns") =>
        LET v == ret.value
            m == Len(v.memory_errors)
            a == Len(v.attention_errors)
            l == Len(v.language_errors)
        IN  /\ v.visuospatial_errors = <<>>
            /\ v.executive_errors = <<>>
            /\ Count(v.attention_errors, "Temporal orientation impairment")
                    = B(EffScore("orientation_time") < 4)
            /\ Count(v.attention_errors, "Spatial orientation impairment")
                    = B(EffScore("orientation_place") < 4)
            /\ CountAll(v, "Temporal orientation impairment")
                    = B(EffScore("orientation_time") < 4)
            /\ CountAll(v, "Spatial orientation impairment")
                    = B(EffScore("orientation_place") < 4)
            /\ (/\ EffScore("orientation_time") < 4 /\ EffScore("orientation_place") < 4
                /\ EffScore("registration") >= 3 /\ EffScore("delayed_recall") >= 3
                /\ EffScore("attention_calculation") >= 3
                /\ EffScore("language_naming") >= 2 /\ EffScore("language_repetition") >= 1)
                    => (a = 2 /\ TotalFlags(v) = 2 /\ v.overall_pattern = AttentionPattern)
            /\ (m <= 1 /\ a <= 1 /\ m + a >= 1 /\ l = 0) => v.overall_pattern = MixedPattern

\* both orientation sections at 3 and nothing else wrong
C24_Witness ==
    /\ Done("analyze_error_patterns")
    /\ EffScore("orientation_time") = 3
    /\ EffScore("orientation_place") = 3
    /\ \A name \in SectionNames \ {"orientation_time", "orientation_place"} :
            EffScore(name) = FullCredit[name]
    /\ ret.value.attention_errors
            = <<"Temporal orientation impairment", "Spatial orientation impairment">>
    /\ ret.value.overall_pattern = AttentionPattern

\* inputs without the key "mmse_sections": the section map passed directly,
\* or wrapped under another key
InitPatternsUnwrapped ==
    /\ InitInstance
    /\ op = "analyze_error_patterns"
    /\ \E reg \in SectionChoices("registration"), rec \in SectionChoices("delayed_recall"),
          att \in SectionChoices("attention_calculation"),
          nam \in SectionChoices("language_naming"),
          rep \in SectionChoices("language_repetition"),
          tim \in SectionChoices("orientation_time"),
          pla \in SectionChoices("orientation_place") :
            LET sections == Sections(("registration" :> reg) @@ ("delayed_recall" :> rec)
                                  @@ ("attention_calculation" :> att)
                                  @@ ("language_naming" :> nam)
                                  @@ ("language_repetition" :> rep)
                                  @@ ("orientation_time" :> tim)
                                  @@ ("orientation_place" :> pla))
            IN  \/ args = [test_responses |-> sections]
                \/ args = [test_responses |-> [sections |-> sections]]

SpecPatternsUnwrapped == InitPatternsUnwrapped /\ [][CallAnalyzeErrorPatterns]_vars

\* C25: without the top-level key "mmse_sections" no threshold rule is
\* evaluated: the five buckets are empty and the overall pattern is "No
\* significant error patterns detected", whatever scores the input carries.
C25_NoKeyNoPattern ==
    (Done("analyze_error_patterns") /\ "mmse_sections" \notin DOMAIN args.test_responses) =>
        /\ ret.status = "ok"
        /\ ret.value.memory_errors = <<>>
        /\ ret.value.attention_errors = <<>>
        /\ ret.value.language_errors = <<>>
        /\ ret.value.visuospatial_errors = <<>>
        /\ ret.value.executive_errors = <<>>
        /\ ret.value.overall_pattern = NoPattern

\* the section map passed directly, with every section scored 0
C25_Witness ==
    /\ Done("analyze_error_patterns")
    /\ DOMAIN args.test_responses = SectionNames
    /\ \A name \in SectionNames : args.test_responses[name] = [score |-> 0]
    /\ ret.value.overall_pattern = NoPattern

(***************************************************************************)
(* ClinicalScoring.calculate_composite_score on binary64                   *)
(*                                                                         *)
(* test_scores is the dict in the order of its items, a sequence of        *)
(* <<test_name, score>> with distinct names and integer scores.  The       *)
(* products, the two running sums and the quotient are doubles; sum() adds *)
(* from the left, as CPython 3.11 (the interpreter of the repository's     *)
(* bytecode) does.                                                         *)
(***************************************************************************)
default_weights_binary64 ==
       ("mmse" :> Dec64(25, 2)) @@ ("moca" :> Dec64(25, 2)) @@ ("memory_tests" :> Dec64(30, 2))
    @@ ("attention_tests" :> Dec64(10, 2)) @@ ("language_tests" :> Dec64(10, 2))

RECURSIVE weighted_loop(_, _, _, _)
\* the for loop from item i on: acc is [weighted_scores, total_weight]
weighted_loop(test_scores, weights, i, acc) ==
    IF i > Len(test_scores) THEN acc
    ELSE LET test_name == test_scores[i][1]
             score == test_scores[i][2]
         IN  IF test_name \in DOMAIN weights
             THEN weighted_loop(test_scores, weights, i + 1,
                    [weighted_scores |->
                        Append(acc.weighted_scores,
                               Mul64(FromInt64(score), weights[test_name])),
                     total_weight |-> Add64(acc.total_weight, weights[test_name])])
             ELSE weighted_loop(test_scores, weights, i + 1, acc)

RECURSIVE sum64(_, _, _)
\* sum(values) from value i on, acc the sum so far
sum64(values, i, acc) ==
    IF i > Len(values) THEN acc ELSE sum64(values, i + 1, Add64(acc, values[i]))

\* composite_score >= threshold
AtLeast64(composite, threshold) == Leq64(FromInt64(threshold), composite)

calculate_composite_score_binary64(test_scores, weights) ==
    LET weights_used == IF weights = None THEN default_weights_binary64 ELSE weights
        values == [i \in 1..Len(test_scores) |-> FromInt64(test_scores[i][2])]
        composite_of(loop) ==
            IF Less64(Zero64, loop.total_weight)
            THEN Div64(sum64(loop.weighted_scores, 1, Zero64), loop.total_weight)
            ELSE IF test_scores # <<>>
            THEN Div64(sum64(values, 1, Zero64), FromInt64(Len(test_scores)))
            ELSE Zero64
        risk_category_of(composite) ==
            IF AtLeast64(composite, 85) THEN "low"
            ELSE IF AtLeast64(composite, 70) THEN "mild"
            ELSE IF AtLeast64(composite, 50) THEN "moderate"
            ELSE "high"
        \* the loop runs once and composite_score is computed once
        loops == {weighted_loop(test_scores, weights_used, 1,
                                [weighted_scores |-> <<>>, total_weight |-> Zero64])}
        composites == {composite_of(loop) : loop \in loops}
    IN  CHOOSE result \in {Returned([composite_score |-> composite,
                                     risk_category |-> risk_category_of(composite),
                                     individual_scores |-> test_scores,
                                     weights_used |-> weights_used]) :
                                composite \in composites} : TRUE

\* the score maps of the calls: up to MaxItems items, names from TestNames,
\* scores on a category threshold and off it
MaxItems == 2
Scores64 == {50, 57, 85}
Items64 ==
    {items \in UNION {[1..n -> TestNames \X Scores64] : n \in 0..MaxItems} :
        \A i, j \in 1..Len(items) : i # j => items[i][1] # items[j][1]}

InitComposite64 ==
    /\ InitInstance
    /\ op = "calculate_composite_score"
    /\ \E items \in Items64 : args = [test_scores |-> items, weights |-> None]

CallCalculateCompositeScore64 ==
    /\ pc = "call" /\ op = "calculate_composite_score"
    /\ ret' = calculate_composite_score_binary64(args.test_scores, args.weights)
    /\ pc' = "done"
    /\ UNCHANGED <<scoring, op, args, callers, db>>

SpecComposite64 == InitComposite64 /\ [][CallCalculateCompositeScore64]_vars

\* the scores of the call whose names are keys of the default weights
MatchedScores64 ==
    {args.test_scores[i][2] :
        i \in {k \in 1..Len(args.test_scores) :
                    args.test_scores[k][1] \in DOMAIN default_weights_binary64}}
MatchedCount64 ==
    Cardinality({k \in 1..Len(args.test_scores) :
                    args.test_scores[k][1] \in DOMAIN default_weights_binary64})

\* C26: with the default weights and at least one matched name the composite
\* lies between the smallest and the largest matched score, and with exactly
\* one matched name it equals that score.
C26_ConvexCombination ==
    (Done("calculate_composite_score") /\ args.weights = None /\ MatchedCount64 >= 1) =>
        LET c == ret.value.composite_score
        IN  /\ \E score \in MatchedScores64 : Leq64(FromInt64(score), c)
            /\ \E score \in MatchedScores64 : Leq64(c, FromInt64(score))
            /\ MatchedCount64 = 1 => \A score \in MatchedScores64 : c = FromInt64(score)

(***************************************************************************)
(* The REST endpoints and the tables behind them.  Every handler is an     *)
(* operator from the tables and the request to the tables after the commit *)
(* and the response; a row carries the columns the handlers decide on.     *)
(* A datetime is [utc |-> n]; a column that is NULL holds None.            *)
(***************************************************************************)
\* requests served in one run
MaxRequests == 4
\* rows test_sessions may hold
MaxSessions == 2
\* rows test_results may hold
MaxResults == 2

UserIds == {"u1", "u2"}
Emails == {"ann@example.com", "bob@example.com"}

\* the mapped attributes of User: its columns and its relationships
UserAttributes ==
    {"id", "email", "name", "age", "education_level", "vision_type", "language",
     "created_at", "updated_at", "preferences", "test_sessions", "reports",
     "progress_tracking", "reminders"}

\* User(**kwargs): the declarative constructor takes mapped attributes only
User(kwargs, new_id) ==
    IF DOMAIN kwargs \subseteq UserAttributes
    THEN Returned([id |-> new_id, email |-> kwargs.email])
    ELSE Raised("TypeError")

\* users.email is unique and users.id is the primary key
UniqueEmails(users) ==
    \A u1 \in users, u2 \in users : (u1.email = u2.email \/ u1.id = u2.id) => u1 = u2

HTTPException(status_code, detail) == [status_code |-> status_code, detail |-> detail]
\* a handler that returns: FastAPI answers 200 with the returned body
OK(body) == [status_code |-> 200, body |-> body]
\* an exception no handler catches: the server answers 500
InternalServerError(exc) == [status_code |-> 500, exc |-> exc]

utcnow(d) == [utc |-> d.now]

\* value LIKE pattern on sequences of characters: _ is any one character,
\* % is any run of characters
RECURSIVE like(_, _)
like(value, pattern) ==
    IF pattern = <<>> THEN value = <<>>
    ELSE IF Head(pattern) = "%"
         THEN like(value, Tail(pattern)) \/ (value # <<>> /\ like(Tail(value), pattern))
    ELSE IF value = <<>> THEN FALSE
    ELSE /\ Head(pattern) = "_" \/ Head(pattern) = Head(value)
         /\ like(Tail(value), Tail(pattern))

MMSE_ == <<"M", "M", "S", "E", "_">>

\* POST /api/auth/register
register(d, user_data, new_id) ==
    IF \E u \in d.users : u.email = user_data.email
    THEN [db |-> d, response |-> HTTPException(400, "Email already registered")]
    ELSE LET new_user == User([email |-> user_data.email, name |-> "name", age |-> 65,
                               education_level |-> "graduate", vision_type |-> "normal",
                               language |-> "en", role |-> "user"], new_id)
         IN  IF new_user.status = "raised"
             THEN [db |-> d, response |-> InternalServerError(new_user.exc)]
             ELSE [db |-> [d EXCEPT !.users = @ \cup {new_user.value}],
                   response |-> OK([id |-> new_user.value.id,
                                    email |-> new_user.value.email, role |-> "user"])]

\* POST /api/auth/login
login(d, credentials) ==
    LET found == {u \in d.users : u.email = credentials.email}
    IN  IF found = {}
        THEN [db |-> d, response |-> HTTPException(404, "User not found")]
        ELSE LET user == CHOOSE u \in found : TRUE
             IN  IF "role" \in UserAttributes
                 THEN [db |-> d, response |-> OK([id |-> user.id, email |-> user.email,
                                                  role |-> "user"])]
                 ELSE [db |-> d, response |-> InternalServerError("AttributeError")]

\* create_test_session without the lookup of the user
create_test_session_unchecked(d, session_data, new_id) ==
    LET new_session == [id |-> new_id, user_id |-> session_data.user_id,
                        status |-> "in_progress", started_at |-> utcnow(d),
                        completed_at |-> None]
    IN  [db |-> [d EXCEPT !.test_sessions = @ \cup {new_session}],
         response |-> OK(new_session)]

\* POST /api/test-sessions/
create_test_session(d, session_data, new_id) ==
    IF ~ \E u \in d.users : u.id = session_data.user_id
    THEN [db |-> d, response |-> HTTPException(404, "User not found")]
    ELSE LET new_session == [id |-> new_id, user_id |-> session_data.user_id,
                             status |-> "in_progress", started_at |-> utcnow(d),
                             completed_at |-> None]
         IN  [db |-> [d EXCEPT !.test_sessions = @ \cup {new_session}],
              response |-> OK(new_session)]

\* update_test_session that copies the fields and never stamps completed_at
update_test_session_fields_only(d, session_id, session_data) ==
    LET found == {s \in d.test_sessions : s.id = session_id}
    IN  IF found = {}
        THEN [db |-> d, response |-> HTTPException(404, "Session not found")]
        ELSE LET session == CHOOSE s \in found : TRUE
                 saved == [field \in DOMAIN session |->
                                IF field \in DOMAIN session_data
                                THEN session_data[field] ELSE session[field]]
             IN  [db |-> [d EXCEPT !.test_sessions = (@ \ {session}) \cup {saved}],
                  response |-> OK(saved)]

\* PUT /api/test-sessions/{session_id}; session_data holds the fields that
\* were set in the request body
update_test_session(d, session_id, session_data) ==
    LET found == {s \in d.test_sessions : s.id = session_id}
    IN  IF found = {}
        THEN [db |-> d, response |-> HTTPException(404, "Session not found")]
        ELSE LET session == CHOOSE s \in found : TRUE
                 updated == [field \in DOMAIN session |->
                                IF field \in DOMAIN session_data
                                THEN session_data[field] ELSE session[field]]
                 completed == "status" \in DOMAIN session_data
                                /\ session_data.status = "completed"
                 saved == IF completed
                          THEN [updated EXCEPT !.completed_at = utcnow(d)]
                          ELSE updated
             IN  [db |-> [d EXCEPT !.test_sessions = (@ \ {session}) \cup {saved}],
                  response |-> OK(saved)]

\* POST /api/cognitive-tests/submit: the client names the test
submit_cognitive_test(d, test_data, new_id) ==
    IF ~ \E s \in d.test_sessions : s.id = test_data.session_id
    THEN [db |-> d, response |-> HTTPException(404, "Session not found")]
    ELSE LET test_result == [id |-> new_id, session_id |-> test_data.session_id,
                             test_name |-> test_data.test_name, test_type |-> "cognitive",
                             score |-> test_data.total_score]
         IN  [db |-> [d EXCEPT !.test_results = @ \cup {test_result}],
              response |-> OK(test_result)]

\* POST /api/cognitive-tests/mmse/audio-submit; clinical_score is the score
\* the transcription and scoring services produced, or None when they raised
submit_mmse_audio_section(d, session_id, test_section, valid, clinical_score, new_id) ==
    LET found == {s \in d.test_sessions : s.id = session_id}
    IN  IF found = {}
        THEN [db |-> d, response |-> HTTPException(404, "Session not found")]
        ELSE IF ~ \E u \in d.users : u.id = (CHOOSE s \in found : TRUE).user_id
        THEN [db |-> d, response |-> InternalServerError("AttributeError")]
        ELSE IF ~ valid
        THEN [db |-> d, response |-> HTTPException(400, "Invalid section data")]
        ELSE IF clinical_score = None
        THEN [db |-> d, response |-> HTTPException(500, "Audio processing error")]
        ELSE LET test_result == [id |-> new_id, session_id |-> session_id,
                                 test_name |-> MMSE_ \o test_section,
                                 test_type |-> "cognitive_audio",
                                 score |-> clinical_score.score]
             IN  [db |-> [d EXCEPT !.test_results = @ \cup {test_result}],
                  response |-> OK([section_id |-> test_section,
                                   score |-> clinical_score.score])]

RECURSIVE total(_)
total(results) ==
    IF results = {} THEN 0
    ELSE LET result == CHOOSE r \in results : TRUE
         IN  result.score + total(results \ {result})

\* get_mmse_results filtering on the name alone
get_mmse_results_any_type(d, session_id) ==
    LET results == {r \in d.test_results :
                        /\ r.session_id = session_id
                        /\ like(r.test_name, <<"M", "M", "S", "E", "_", "%">>)}
    IN  IF results = {}
        THEN [db |-> d, response |-> HTTPException(404, "No MMSE results found")]
        ELSE [db |-> d,
              response |-> OK([session_id |-> session_id, total_score |-> total(results),
                               sections_completed |-> Cardinality(results)])]

\* GET /api/cognitive-tests/mmse/session/{session_id}
get_mmse_results(d, session_id) ==
    LET results == {r \in d.test_results :
                        /\ r.session_id = session_id
                        /\ like(r.test_name, <<"M", "M", "S", "E", "_", "%">>)
                        /\ r.test_type = "cognitive_audio"}
        total_score == total(results)
        risk_assessment ==
            IF total_score >= 24 THEN "normal"
            ELSE IF total_score >= 18 THEN "mild"
            ELSE IF total_score >= 12 THEN "moderate"
            ELSE "severe"
    IN  IF results = {}
        THEN [db |-> d, response |-> HTTPException(404, "No MMSE results found")]
        ELSE [db |-> d,
              response |-> OK([session_id |-> session_id, total_score |-> total_score,
                               risk_assessment |-> risk_assessment,
                               sections_completed |-> Cardinality(results)])]

\* POST /api/cognitive-tests/analyze-comprehensive; the except clause of the
\* handler catches its own HTTPException(404) and answers 500
get_comprehensive_analysis(d, session_id, analysis_succeeds) ==
    LET test_results == {r \in d.test_results : r.session_id = session_id}
        found == {s \in d.test_sessions : s.id = session_id}
    IN  IF test_results = {}
        THEN [db |-> d, response |-> HTTPException(500, "404: No test results found for session")]
        ELSE IF found = {}
        THEN [db |-> d, response |-> HTTPException(500, "404: Test session not found")]
        ELSE IF ~ \E u \in d.users : u.id = (CHOOSE s \in found : TRUE).user_id
        THEN [db |-> d, response |-> HTTPException(500, "404: User not found")]
        ELSE IF ~ analysis_succeeds
        THEN [db |-> d, response |-> HTTPException(500, "analysis failed")]
        ELSE LET session == CHOOSE s \in found : TRUE
                 saved == [session EXCEPT !.completed_at = utcnow(d),
                                          !.status = "completed"]
             IN  [db |-> [d EXCEPT !.test_sessions = (@ \ {session}) \cup {saved}],
                  response |-> OK([session_id |-> session_id, status |-> "completed"])]

(***************************************************************************)
(* The server: requests are served one after another, each handler runs to *)
(* its commit.  The tables outlive the server process, so users may hold   *)
(* rows when the server starts; test_sessions and test_results start empty.*)
(***************************************************************************)

Tables(d) == [users |-> d.users, test_sessions |-> d.test_sessions,
              test_results |-> d.test_results]

InitAPI ==
    /\ scoring = ClinicalScoring
    /\ callers = <<>>
    /\ pc = "serve" /\ op = "none" /\ args = <<>> /\ ret = Pending
    /\ \E users \in SUBSET [id : UserIds, email : Emails] :
        /\ UniqueEmails(users)
        /\ db = [users |-> users, test_sessions |-> {}, test_results |-> {}, now |-> 1]

\* generate_uuid: an id no row holds (ids are opaque, so one unused id stands
\* for all of them); 0 once the bound on rows is reached
generate_uuid(ids, rows) ==
    LET unused == ids \ {row.id : row \in rows}
    IN  IF unused = {} THEN {0} ELSE {CHOOSE id \in unused : TRUE}

\* one request: the handler's outcome is committed and answered
Serve(request, request_args, out, new_id) ==
    /\ pc = "serve"
    /\ db.now <= MaxRequests
    /\ Tables(out.db) # Tables(db) => new_id # 0
    /\ op' = request
    /\ args' = request_args
    /\ ret' = out.response
    /\ db' = [out.db EXCEPT !.now = @ + 1]
    /\ UNCHANGED <<scoring, pc, callers>>

Register ==
    \E email \in Emails, new_id \in generate_uuid(UserIds, db.users) :
        Serve("register", [email |-> email],
              register(db, [email |-> email], new_id), new_id)

Login ==
    \E email \in Emails :
        Serve("login", [email |-> email], login(db, [email |-> email]), 1)

CreateTestSession ==
    \E user_id \in UserIds, new_id \in generate_uuid(1..MaxSessions, db.test_sessions) :
        Serve("create_test_session", [user_id |-> user_id],
              create_test_session(db, [user_id |-> user_id], new_id), new_id)

UpdateTestSession ==
    \E session_id \in 1..MaxSessions,
       session_data \in {EmptyDict} \cup {[status |-> st] :
                            st \in {"in_progress", "completed", "abandoned"}} :
        Serve("update_test_session",
              [session_id |-> session_id, session_data |-> session_data],
              update_test_session(db, session_id, session_data), 1)

SubmitCognitiveTest ==
    \E session_id \in 1..MaxSessions,
       test_name \in {<<"m", "m", "s", "e">>, MMSE_ \o <<"r", "e", "c", "a", "l", "l">>},
       new_id \in generate_uuid(1..MaxResults, db.test_results) :
        LET test_data == [session_id |-> session_id, test_name |-> test_name,
                          total_score |-> 30]
        IN  Serve("submit_cognitive_test", test_data,
                  submit_cognitive_test(db, test_data, new_id), new_id)

SubmitMMSEAudioSection ==
    \E session_id \in 1..MaxSessions, test_section \in {<<>>, <<"r", "e", "c", "a", "l", "l">>},
       section_data_valid \in BOOLEAN, clinical_score \in {None} \cup {[score |-> k] : k \in {3, 25}},
       new_id \in generate_uuid(1..MaxResults, db.test_results) :
        Serve("submit_mmse_audio_section",
              [session_id |-> session_id, test_section |-> test_section],
              submit_mmse_audio_section(db, session_id, test_section,
                                        section_data_valid, clinical_score, new_id),
              new_id)

GetMMSEResults ==
    \E session_id \in 1..MaxSessions :
        Serve("get_mmse_results", [session_id |-> session_id],
              get_mmse_results(db, session_id), 1)

GetComprehensiveAnalysis ==
    \E session_id \in 1..MaxSessions, analysis_succeeds \in BOOLEAN :
        Serve("get_comprehensive_analysis", [session_id |-> session_id],
              get_comprehensive_analysis(db, session_id, analysis_succeeds), 1)

NextAPI ==
    \/ Register
    \/ Login
    \/ CreateTestSession
    \/ UpdateTestSession
    \/ SubmitCognitiveTest
    \/ SubmitMMSEAudioSection
    \/ GetMMSEResults
    \/ GetComprehensiveAnalysis

SpecAPI == InitAPI /\ [][NextAPI]_vars

(***************************************************************************)
(* Properties of the endpoints                                             *)
(***************************************************************************)
\* C27: create_test_session creates a session only for an existing user: for
\* an unknown user_id it answers 404 and stores nothing; for a known user it
\* stores exactly one new session with status "in_progress", a started_at
\* timestamp and no completed_at, and returns its id.
C27_CreateTestSession ==
    [][op' = "create_test_session" =>
        IF ~ \E u \in db.users : u.id = args'.user_id
        THEN ret'.status_code = 404 /\ Tables(db') = Tables(db)
        ELSE /\ ret'.status_code = 200
             /\ db'.users = db.users /\ db'.test_results = db.test_results
             /\ \E s \in db'.test_sessions \ db.test_sessions :
                    /\ db'.test_sessions = db.test_sessions \cup {s}
                    /\ ~ \E old \in db.test_sessions : old.id = s.id
                    /\ s.user_id = args'.user_id
                    /\ s.status = "in_progress"
                    /\ s.started_at # None
                    /\ s.completed_at = None
                    /\ ret'.body.id = s.id]_vars

C27_Witness ==
    /\ op = "create_test_session" /\ ret.status_code = 200
    /\ Cardinality(db.test_sessions) = 2
    /\ \E s \in db.test_sessions : s.id = ret.body.id /\ s.status = "in_progress"

\* C28: after any sequence of create_test_session, update_test_session and
\* get_comprehensive_analysis requests every session whose status is
\* "completed" has a completed_at, and completed_at is set only in a step
\* that leaves the session "completed", so a session that was never set to
\* "completed" has none.
C28_CompletedAt ==
    /\ [](\A s \in db.test_sessions : s.status = "completed" => s.completed_at # None)
    /\ [][\A s \in db'.test_sessions :
            (/\ s.completed_at # None
             /\ \A old \in db.test_sessions : old.id = s.id => old.completed_at = None)
            => s.status = "completed"]_vars

C28_Witness ==
    /\ op = "update_test_session" /\ ret.status_code = 200
    /\ "status" \in DOMAIN args.session_data
    /\ \E s \in db.test_sessions, t \in db.test_sessions :
        /\ s.id = args.session_id /\ s.status = "completed" /\ s.completed_at # None
        /\ t.status = "in_progress" /\ t.completed_at = None

StartsWith(value, prefix) ==
    Len(value) >= Len(prefix) /\ SubSeq(value, 1, Len(prefix)) = prefix

\* the MMSE audio results stored for a session
MMSEAudioResults(session_id) ==
    {r \in db.test_results : /\ r.session_id = session_id
                             /\ StartsWith(r.test_name, MMSE_)
                             /\ r.test_type = "cognitive_audio"}

\* C29: a register request for a stored email answers 400 and adds no user,
\* no two stored users share an email, a login for a stored email returns
\* the id stored for it, and a login for an email never stored answers 404.
C29_RegistrationAndLogin ==
    [][/\ UniqueEmails(db'.users)
       /\ op' = "register" /\ (\E u \in db.users : u.email = args'.email)
            => ret'.status_code = 400 /\ db'.users = db.users
       /\ op' = "login" =>
            IF \E u \in db.users : u.email = args'.email
            THEN /\ ret'.status_code = 200
                 /\ \E u \in db.users : u.email = args'.email /\ ret'.body.id = u.id
            ELSE ret'.status_code = 404]_vars

\* C30: get_mmse_results answers 404 for a session as long as no result whose
\* test_name starts with "MMSE_" and whose test_type is "cognitive_audio" is
\* stored for it; a session that was just created yields 404.
C30_NoMMSEResultsYet ==
    /\ []((op = "get_mmse_results" /\ MMSEAudioResults(args.session_id) = {})
            => ret.status_code = 404)
    /\ [][(/\ op = "create_test_session" /\ ret.status_code = 200
           /\ op' = "get_mmse_results" /\ args'.session_id = ret.body.id)
            => ret'.status_code = 404]_vars

C30_Witness ==
    /\ op = "get_mmse_results" /\ ret.status_code = 404
    /\ \E s \in db.test_sessions : s.id = args.session_id
    /\ \E r \in db.test_results :
        /\ r.session_id = args.session_id
        /\ StartsWith(r.test_name, MMSE_)
        /\ r.test_type = "cognitive"

====
